---------------------------- MODULE Spec2Model ----------------------------
(***************************************************************************)
(* A model of the SQL-RAG orchestrator of AtlasRAG                         *)
(* (backend/app/services/sql_orchestrator.py).                             *)
(*                                                                         *)
(* SQL texts.  A SQL text is a sequence of lexemes (strings).  Consecutive *)
(* lexemes are separated by one blank, except the lexeme ";" which is      *)
(* written directly after the lexeme before it; " ;" is a semicolon        *)
(* written after a blank.  A text neither starts nor ends with a blank, so *)
(* str.strip() leaves it as it is.  The regular expressions of the source  *)
(* are translated to what they match on such texts.                        *)
(***************************************************************************)
EXTENDS Integers, Sequences, FiniteSets, TLC

(***************************************************************************)
(* Bounds of the model.                                                    *)
(***************************************************************************)
\* fragments per SQL text handed to the validator
MaxFrags == 4

\* the settings that bound one orchestration, scaled down
planner_retry_limit == 1

agent_select_rounds == 2

sql_max_queries == 1

\* the engine_cache_size of the specification; app/config.py declares no such
\* setting (see _build_engine)
engine_cache_size == 2

\* scans in the application database when the scan functions are called on
\* their own, and calls of reconcile_scan_status in a row
NumScans == 3

MaxReconciles == 2

\* calls of _build_engine in a row when it is called on its own
MaxAcquires == 4

\* queries of one round when the query loop is run on its own (a deployment
\* whose sql_max_queries is that large)
RoundQueries == 2

\* the rate limiter (app/main.py), scaled down: RateLimiter(max_keys,
\* window_seconds), the limit handed to allow, and the readings of the clock
max_keys == 2

window_seconds == 2

rate_limit_per_minute == 2

MaxClock == 3

(***************************************************************************)
(* Settings (app/config.py)                                                *)
(***************************************************************************)
sql_max_rows == 200

schema_context_tables_limit == 80

schema_context_columns_limit == 40

schema_context_sample_rows_limit == 5

(***************************************************************************)
(* Lexemes                                                                 *)
(***************************************************************************)
\* Python's None where a string is expected
None == "None"

\* str.lower() on the lexemes of the model that hold an upper-case letter
LowerOf ==
    ("SELECT" :> "select") @@ ("FROM" :> "from") @@ ("LIMIT" :> "limit")
    @@ ("ALL" :> "all") @@ ("DROP" :> "drop") @@ ("\"Assets\"" :> "\"assets\"")
    @@ ("ORDER" :> "order") @@ ("BY" :> "by") @@ ("DESC" :> "desc") @@ ("ASC" :> "asc")

Lower(t) == IF t \in DOMAIN LowerOf THEN LowerOf[t] ELSE t

LowerSeq(s) == [i \in 1..Len(s) |-> Lower(s[i])]

\* lexemes that hold no word character
Punct == {";", " ;", "(", ")", ",", "*"}

Semicolons == {";", " ;"}

\* lower-cased lexemes made of several words, and the words (\w+) in them
Parts ==
    ("public.assets" :> {"public", "assets"}) @@ ("hr.secret" :> {"hr", "secret"})
    @@ ("public.orders" :> {"public", "orders"})
    @@ ("\"assets\"" :> {"assets"}) @@ (":n" :> {"n"})

\* the words of a lexeme, lower-cased: what \b...\b can match in it
WordsOf(t) ==
    IF t \in Punct THEN {}
    ELSE IF Lower(t) \in DOMAIN Parts THEN Parts[Lower(t)]
    ELSE {Lower(t)}

\* decimal numerals and their values: int(raw_value), str(limit)
NumVal == ("1" :> 1) @@ ("3" :> 3) @@ ("5" :> 5) @@ ("200" :> 200) @@ ("201" :> 201) @@ ("1000" :> 1000)

Numerals == DOMAIN NumVal

\* bind parameters  :[a-zA-Z_][a-zA-Z0-9_]*
Binds == {":n"}

\* str(n)
Str(n) == CHOOSE t \in Numerals : NumVal[t] = n

\* the lexeme starts with a character of [a-zA-Z0-9_".] (and is made of them)
IsNameLexeme(t) == t \notin Punct /\ t \notin Binds

\* the lexeme is an identifier [a-zA-Z_][a-zA-Z0-9_]*
IsIdentifier(t) ==
    /\ t \notin Punct
    /\ t \notin Binds
    /\ t \notin Numerals
    /\ Lower(t) \notin DOMAIN Parts

\* the name holds a "."
IsQualified(name) == name \in DOMAIN Parts /\ Cardinality(Parts[name]) > 1

\* lower-cased lexemes that hold the substring "with"
WithInside == {"with", "withdrawals"}

\* lower-cased lexemes that start with "select" / with "with"
SelectPrefixed == {"select"}

WithPrefixed == {"with", "withdrawals"}

(***************************************************************************)
(* SQL validator                                                           *)
(***************************************************************************)
\* FORBIDDEN_KEYWORDS as it would be with "drop" forgotten
FORBIDDEN_KEYWORDS_NoDrop ==
    {"insert", "update", "delete", "upsert", "merge", "alter", "create",
     "grant", "revoke", "truncate", "copy", "execute", "call"}

FORBIDDEN_KEYWORDS ==
    {"insert", "update", "delete", "upsert", "merge", "drop", "alter", "create",
     "grant", "revoke", "truncate", "copy", "execute", "call"}

FORBIDDEN_FUNCTIONS ==
    {"pg_read_file", "pg_ls_dir", "pg_sleep", "dblink", "lo_export", "lo_import"}

\* re.search of \b(kw1|kw2|...)\b
HasWord(s, words) == \E i \in 1..Len(s) : WordsOf(s[i]) \cap words # {}

\* SELECT_INTO_PATTERN  \bselect\b[\s\S]+?\binto\b
SELECT_INTO_PATTERN(s) ==
    \E i \in 1..Len(s) : \E j \in (i + 1)..Len(s) :
        "select" \in WordsOf(s[i]) /\ "into" \in WordsOf(s[j])

\* FOR_UPDATE_PATTERN  \bfor\s+(update|share)\b
FOR_UPDATE_PATTERN(s) ==
    \E i \in 1..(Len(s) - 1) :
        Lower(s[i]) = "for" /\ Lower(s[i + 1]) \in {"update", "share"}

\* value.strip().strip('"').lower()
_normalize_identifier(value) ==
    LET l == Lower(value)
    IN  IF l = "\"assets\"" THEN "assets" ELSE l

\* FROM_JOIN_PATTERN.findall: the matches are found left to right and do not
\* overlap, so a name that follows FROM/JOIN is consumed by its match
RECURSIVE FromJoinNames(_, _)
FromJoinNames(s, i) ==
    IF i >= Len(s) THEN {}
    ELSE IF Lower(s[i]) \in {"from", "join"} /\ IsNameLexeme(s[i + 1])
         THEN {_normalize_identifier(s[i + 1])} \cup FromJoinNames(s, i + 2)
         ELSE FromJoinNames(s, i + 1)

_extract_table_names(sql) == FromJoinNames(sql, 1)

\* CTE_NAME_PATTERN  \bwith\s+(ident)\s+as\s*\(
\* FOLLOWING_CTE_PATTERN  \)\s*,\s*(ident)\s+as\s*\(
_extract_cte_names(sql) ==
    {Lower(sql[i + 1]) : i \in {k \in 1..(Len(sql) - 3) :
        /\ Lower(sql[k]) = "with"
        /\ IsIdentifier(sql[k + 1])
        /\ Lower(sql[k + 2]) = "as"
        /\ sql[k + 3] = "("}}
    \cup
    {Lower(sql[i + 2]) : i \in {k \in 1..(Len(sql) - 4) :
        /\ sql[k] = ")"
        /\ sql[k + 1] = ","
        /\ IsIdentifier(sql[k + 2])
        /\ Lower(sql[k + 3]) = "as"
        /\ sql[k + 4] = "("}}

\* the regular expression of _ensure_limit matches at lexeme i:
\* \blimit\s+(\d+|:[a-zA-Z_][a-zA-Z0-9_]*|all)\b
LimitAt(s, i) ==
    /\ i < Len(s)
    /\ Lower(s[i]) = "limit"
    /\ \/ s[i + 1] \in Numerals
       \/ s[i + 1] \in Binds
       \/ Lower(s[i + 1]) = "all"

LimitMatches(s) == {i \in 1..Len(s) : LimitAt(s, i)}

Min(S) == CHOOSE x \in S : \A y \in S : x <= y

\* re.sub: every match replaced by "LIMIT <limit>"
LimitSub(s, limit) ==
    [i \in 1..Len(s) |->
        IF LimitAt(s, i) THEN "LIMIT"
        ELSE IF i > 1 /\ LimitAt(s, i - 1) THEN Str(limit)
        ELSE s[i]]

\* str.rstrip(";"): ";" is removed from the end as long as the text ends with
\* it; once " ;" is removed the text ends with a blank and nothing more goes
RECURSIVE RStripSemicolons(_)
RStripSemicolons(s) ==
    IF s = <<>> THEN s
    ELSE IF s[Len(s)] = ";" THEN RStripSemicolons(SubSeq(s, 1, Len(s) - 1))
    ELSE IF s[Len(s)] = " ;" THEN SubSeq(s, 1, Len(s) - 1)
    ELSE s

\* the numeric LIMIT that is kept: existing <= limit
LimitWithin(existing, limit) == existing <= limit

_ensure_limit(sql, limit) ==
    IF LimitMatches(sql) # {}
    THEN LET first == Min(LimitMatches(sql))
             raw_value == sql[first + 1]
         IN  IF raw_value \in Numerals /\ LimitWithin(NumVal[raw_value], limit)
             THEN sql
             ELSE LimitSub(sql, limit)
    ELSE RStripSemicolons(sql) \o <<"LIMIT", Str(limit)>>

Verdict(ok, error, missing, sql) ==
    [ok |-> ok, error |-> error, missing |-> missing, sql |-> sql]

\* the test that lets unqualified missing names pass: "with" in lowered
LenientOnMissing(lowered) == \E i \in 1..Len(lowered) : lowered[i] \in WithInside

\* _validate_sql with the forbidden keywords tested before SELECT INTO
_validate_sql_KeywordsFirst(sql, allowed_tables, max_rows) ==
    LET cleaned == RStripSemicolons(sql)
        lowered == LowerSeq(cleaned)
        referenced == _extract_table_names(cleaned) \ _extract_cte_names(cleaned)
        missing == {name \in referenced : name \notin allowed_tables}
        missing_qualified == {name \in missing : IsQualified(name)}
    IN  IF \E i \in 1..Len(cleaned) : cleaned[i] \in Semicolons
        THEN Verdict(FALSE, "Múltiplas statements não são permitidas.", {}, cleaned)
        ELSE IF ~(/\ lowered # <<>>
                  /\ lowered[1] \in SelectPrefixed \cup WithPrefixed)
        THEN Verdict(FALSE, "Apenas SELECT/CTE são permitidos.", {}, cleaned)
        ELSE IF HasWord(lowered, FORBIDDEN_KEYWORDS)
        THEN Verdict(FALSE, "Comandos de escrita ou DDL não são permitidos.", {}, cleaned)
        ELSE IF SELECT_INTO_PATTERN(lowered)
        THEN Verdict(FALSE, "SELECT INTO não é permitido.", {}, cleaned)
        ELSE IF FOR_UPDATE_PATTERN(lowered)
        THEN Verdict(FALSE, "SELECT com FOR UPDATE/SHARE não é permitido.", {}, cleaned)
        ELSE IF HasWord(lowered, FORBIDDEN_FUNCTIONS)
        THEN Verdict(FALSE, "Funções perigosas não são permitidas.", {}, cleaned)
        ELSE IF missing # {} /\ LenientOnMissing(lowered) /\ missing_qualified # {}
        THEN Verdict(FALSE, "Tabelas fora do catálogo permitido", missing_qualified, cleaned)
        ELSE IF missing # {} /\ ~LenientOnMissing(lowered)
        THEN Verdict(FALSE, "Tabelas fora do catálogo permitido", missing, cleaned)
        ELSE Verdict(TRUE, None, {}, _ensure_limit(cleaned, max_rows))

_validate_sql(sql, allowed_tables, max_rows) ==
    LET cleaned == RStripSemicolons(sql)
        lowered == LowerSeq(cleaned)
        referenced == _extract_table_names(cleaned) \ _extract_cte_names(cleaned)
        missing == {name \in referenced : name \notin allowed_tables}
        missing_qualified == {name \in missing : IsQualified(name)}
    IN  IF \E i \in 1..Len(cleaned) : cleaned[i] \in Semicolons
        THEN Verdict(FALSE, "Múltiplas statements não são permitidas.", {}, cleaned)
        ELSE IF ~(/\ lowered # <<>>
                  /\ lowered[1] \in SelectPrefixed \cup WithPrefixed)
        THEN Verdict(FALSE, "Apenas SELECT/CTE são permitidos.", {}, cleaned)
        ELSE IF SELECT_INTO_PATTERN(lowered)
        THEN Verdict(FALSE, "SELECT INTO não é permitido.", {}, cleaned)
        ELSE IF FOR_UPDATE_PATTERN(lowered)
        THEN Verdict(FALSE, "SELECT com FOR UPDATE/SHARE não é permitido.", {}, cleaned)
        ELSE IF HasWord(lowered, FORBIDDEN_KEYWORDS)
        THEN Verdict(FALSE, "Comandos de escrita ou DDL não são permitidos.", {}, cleaned)
        ELSE IF HasWord(lowered, FORBIDDEN_FUNCTIONS)
        THEN Verdict(FALSE, "Funções perigosas não são permitidas.", {}, cleaned)
        ELSE IF missing # {} /\ LenientOnMissing(lowered) /\ missing_qualified # {}
        THEN Verdict(FALSE, "Tabelas fora do catálogo permitido", missing_qualified, cleaned)
        ELSE IF missing # {} /\ ~LenientOnMissing(lowered)
        THEN Verdict(FALSE, "Tabelas fora do catálogo permitido", missing, cleaned)
        ELSE Verdict(TRUE, None, {}, _ensure_limit(cleaned, max_rows))

NoVerdict == Verdict(FALSE, "pending", {}, <<>>)

(***************************************************************************)
(* State                                                                   *)
(***************************************************************************)
VARIABLES
    \* the validator called on its own: its input (and the number of fragments
    \* it was composed of), its position, its result
    v_sql, v_n, v_pc, v_out,
    \* the scan functions called on their own: the position, the scan rows
    \* before the latest reconcile_scan_status and the number of its calls, the
    \* list handed to _select_latest_scan_ids and its result
    s_pc, s_before, s_runs, s_list, s_selected,
    \* _build_engine called on its own: the calls so far, each with its key,
    \* whether create_engine ran and whether the call raised
    c_log,
    \* settings read by orchestrate_sql_rag
    openai_api_key, db_dialect,
    \* the application database: scans and the catalog rows (tables) of each
    scans, catalog,
    \* the arguments of orchestrate_sql_rag
    user_question, connection_ids,
    \* its locals
    schema_context, allowed_tables_by_connection, error_payload, sql_results,
    executed_queries, previous_sql_summary, retry_attempt, attempt, round_index,
    planner_response, queries_to_run, query, query_pos,
    \* its position, and what it returned or raised
    pc, outcome,
    \* the process-wide engine cache
    ENGINE_CACHE, ENGINE_CACHE_ORDER,
    \* what left the process: requests sent to the LLM endpoint, calls of the
    \* two LLM roles, the number of statements sent to target databases, the
    \* statement that the latest iteration of the query loop sent (if any)
    planner_calls, planner_requests, responder_calls, responder_requests,
    db_calls, last_statement, responder_payload,
    \* the error_context of the latest Planner request, the number of Planner
    \* responses that were invalid, who made the decision in force (the LLM or
    \* the fallback planner), and what the target database or the validator
    \* did to the query of the latest iteration of the query loop
    planner_error_context, planner_invalid, planner_source, query_failure,
    \* threads of the server inside _build_engine: the line each has reached,
    \* the key of its call, and the number of calls begun so far
    t_pc, t_key, t_calls,
    \* the rate limiter: self.cache (an OrderedDict: the entries in their
    \* order), the reading of time.time(), and the calls of allow so far, each
    \* with its key, its time and its result
    rl_cache, rl_now, rl_log,
    \* the background scanner (run_scan) of one scan: its position and the
    \* index of its encoding attempt
    b_pc, b_idx,
    \* orchestrations that run side by side, up to their schema context: the
    \* position of each, its connection_ids, the running_scan_ids it read, and
    \* the scan rows when they began
    o_pc, o_ids, o_running, o_start,
    \* fallback_plan called on its own: the position, the question, the
    \* snapshot and the PlannerResponse it returned
    f_pc, f_question, f_context, f_out,
    \* search_embeddings called on its own: the position (which of the two
    \* copies ran), the cosine distance of each stored embedding to the
    \* question, the scope and the embeddings returned
    q_pc, q_dist, q_scope, q_out,
    \* reindex_embeddings called on its own: the version of the canonical text
    \* of each catalog entity, the embedding store, the calls of the embedding
    \* service and of reindex_embeddings so far, and the latest call of
    \* reindex_embeddings since the catalog last changed
    e_docs, e_store, e_calls, e_runs, e_last

vvars == <<v_sql, v_n, v_pc, v_out>>

svars == <<s_pc, s_before, s_runs, s_list, s_selected>>

cvars == <<c_log>>

tvars == <<t_pc, t_key, t_calls>>

\* what runs in the process next to one orchestration
rvars == <<rl_cache, rl_now, rl_log>>

bvars == <<b_pc, b_idx>>

orchvars == <<o_pc, o_ids, o_running, o_start>>

\* functions called on their own
fvars == <<f_pc, f_question, f_context, f_out>>

qvars == <<q_pc, q_dist, q_scope, q_out>>

evars == <<e_docs, e_store, e_calls, e_runs, e_last>>

libvars == <<fvars, qvars, evars>>

procvars == <<tvars, rvars, bvars, orchvars, libvars>>

worldvars == <<openai_api_key, db_dialect, user_question, connection_ids>>

dbvars == <<scans, catalog>>

localvars ==
    <<schema_context, allowed_tables_by_connection, error_payload, sql_results,
      executed_queries, previous_sql_summary, retry_attempt, attempt, round_index,
      planner_response, queries_to_run, query, query_pos>>

cachevars == <<ENGINE_CACHE, ENGINE_CACHE_ORDER>>

plannerlog == <<planner_error_context, planner_invalid, planner_source>>

logvars ==
    <<planner_calls, planner_requests, responder_calls, responder_requests,
      db_calls, last_statement, responder_payload, plannerlog, query_failure>>

ovars == <<worldvars, dbvars, localvars, pc, outcome, cachevars, logvars>>

vars == <<vvars, svars, cvars, procvars, ovars>>

(***************************************************************************)
(* The application database: scans and catalog rows                        *)
(***************************************************************************)
\* the Connection rows
Connections == {1, 2}

\* catalog rows (DbTable with its DbSchema and DbColumns) a scan may have written
AssetsTable == [schema |-> "public", name |-> "assets", columns |-> <<"id", "name">>]

OrdersTable == [schema |-> "public", name |-> "orders", columns |-> <<"id", "total">>]

Range(f) == {f[i] : i \in DOMAIN f}

Take(seq, n) == SubSeq(seq, 1, IF n < Len(seq) THEN n ELSE Len(seq))

\* f"{schema_name}.{table_name}"
Qualify(schema_name, table_name) ==
    CHOOSE q \in DOMAIN Parts : IsQualified(q) /\ Parts[q] = {schema_name, table_name}

\* A Scan row.  stale: started more than stale_minutes ago; finished_at: set or
\* not; started_at grows with the scan id.
ScanRow(connection_id, status, stale, finished_at, error_message) ==
    [connection_id |-> connection_id, status |-> status, stale |-> stale,
     finished_at |-> finished_at, error_message |-> error_message]

\* the reconciler as it would be if it failed a scan only at the second sight
reconcile_scan_status_Warn(S, cat, ids) ==
    [i \in DOMAIN S |->
        IF /\ S[i].connection_id \in Range(ids)
           /\ S[i].status = "running"
           /\ S[i].stale
        THEN IF Len(cat[i]) > 0
             THEN [S[i] EXCEPT !.status = "completed", !.finished_at = TRUE,
                               !.error_message = None]
             ELSE IF S[i].error_message = None
             THEN [S[i] EXCEPT !.error_message = "Scan interrompido/sem catálogo gerado"]
             ELSE [S[i] EXCEPT !.status = "failed", !.finished_at = TRUE]
        ELSE S[i]]

\* the reconciler as it would be if it promoted without looking at the catalog
reconcile_scan_status_NoCatalogCheck(S, cat, ids) ==
    [i \in DOMAIN S |->
        IF /\ S[i].connection_id \in Range(ids)
           /\ S[i].status = "running"
           /\ S[i].stale
        THEN [S[i] EXCEPT !.status = "completed", !.finished_at = TRUE,
                          !.error_message = None]
        ELSE S[i]]

\* the reconciler as it would be if it looked at the scans of every connection
reconcile_scan_status_AnyConnection(S, cat, ids) ==
    [i \in DOMAIN S |->
        IF S[i].status = "running" /\ S[i].stale
        THEN IF Len(cat[i]) > 0
             THEN [S[i] EXCEPT !.status = "completed", !.finished_at = TRUE,
                               !.error_message = None]
             ELSE [S[i] EXCEPT !.status = "failed", !.finished_at = TRUE,
                               !.error_message = "Scan interrompido/sem catálogo gerado"]
        ELSE S[i]]

\* reconcile_scan_status(db, connection_ids): every running scan of the
\* connections that is older than stale_minutes becomes completed when it has
\* catalog rows and failed when it has none; one commit
reconcile_scan_status(S, cat, ids) ==
    [i \in DOMAIN S |->
        IF /\ S[i].connection_id \in Range(ids)
           /\ S[i].status = "running"
           /\ S[i].stale
        THEN IF Len(cat[i]) > 0
             THEN [S[i] EXCEPT !.status = "completed", !.finished_at = TRUE,
                               !.error_message = None]
             ELSE [S[i] EXCEPT !.status = "failed", !.finished_at = TRUE,
                               !.error_message = "Scan interrompido/sem catálogo gerado"]
        ELSE S[i]]

\* the count as it would be if every scan had catalog rows
_scan_has_catalog_Always(cat, scan_id) == TRUE

\* SELECT COUNT(*) FROM db_tables t JOIN db_schemas s ... WHERE s.scan_id = :scan_id
_scan_has_catalog(cat, scan_id) == Len(cat[scan_id]) > 0

\* the order as it would be with started_at ascending
ScanBefore_OldestFirst(S, a, b) ==
    \/ S[a].connection_id < S[b].connection_id
    \/ /\ S[a].connection_id = S[b].connection_id
       /\ \/ S[a].finished_at /\ ~S[b].finished_at
          \/ S[a].finished_at = S[b].finished_at /\ a < b

\* order_by(Scan.connection_id, Scan.finished_at.desc().nullslast(), Scan.started_at.desc())
ScanBefore(S, a, b) ==
    \/ S[a].connection_id < S[b].connection_id
    \/ /\ S[a].connection_id = S[b].connection_id
       /\ \/ S[a].finished_at /\ ~S[b].finished_at
          \/ S[a].finished_at = S[b].finished_at /\ a > b

RECURSIVE SortScans(_, _)
SortScans(S, ids) ==
    IF ids = {} THEN <<>>
    ELSE LET first == CHOOSE a \in ids : \A b \in ids \ {a} : ScanBefore(S, a, b)
         IN  <<first>> \o SortScans(S, ids \ {first})

\* the scans query of _schema_context
ScanQuery(S, ids) ==
    SortScans(S, {i \in DOMAIN S :
        S[i].connection_id \in Range(ids) /\ S[i].status \in {"completed", "running"}})

\* next(x for x in items if x in ok, None): 0 stands for None
FirstScan(items, ok) ==
    IF \E k \in 1..Len(items) : items[k] \in ok
    THEN items[CHOOSE k \in 1..Len(items) :
                  items[k] \in ok /\ \A m \in 1..(k - 1) : items[m] \notin ok]
    ELSE 0

_select_latest_scan_ids(S, cat, scan_list) ==
    LET conns == {S[scan_list[k]].connection_id : k \in 1..Len(scan_list)}
        items(c) == SelectSeq(scan_list, LAMBDA i : S[i].connection_id = c)
        completed(c) == FirstScan(items(c), {i \in DOMAIN S : S[i].status = "completed"})
        running(c) ==
            FirstScan(items(c),
                {i \in DOMAIN S : S[i].status = "running" /\ _scan_has_catalog(cat, i)})
        picked == {c \in conns : completed(c) # 0 \/ running(c) # 0}
    IN  [latest_scan_ids |->
            [c \in picked |-> IF completed(c) # 0 THEN completed(c) ELSE running(c)],
         running_scan_ids |->
            {running(c) : c \in {d \in picked : completed(d) = 0}}]

\* the promotion as it would be if it took every running scan
PromoteSelected_AllRunning(S, running_scan_ids) ==
    [i \in DOMAIN S |->
        IF S[i].status = "running"
        THEN [S[i] EXCEPT !.status = "completed", !.finished_at = TRUE, !.error_message = None]
        ELSE S[i]]

\* the scan rows after _schema_context promoted the running scans it selected
PromoteSelected(S, running_scan_ids) ==
    [i \in DOMAIN S |->
        IF i \in running_scan_ids
        THEN [S[i] EXCEPT !.status = "completed", !.finished_at = TRUE, !.error_message = None]
        ELSE S[i]]

\* the DbTable rows of the scans, in the order of their ids
RECURSIVE TablesOfScans(_, _)
TablesOfScans(cat, scan_ids) ==
    IF scan_ids = {} THEN <<>>
    ELSE LET i == CHOOSE a \in scan_ids : \A b \in scan_ids : a <= b
         IN  [k \in 1..Len(cat[i]) |-> [scan_id |-> i, table |-> cat[i][k]]]
             \o TablesOfScans(cat, scan_ids \ {i})

\* _schema_context(db, connection_ids): the scans after it, the snapshot and
\* the allowlists.  Constraints, indexes and sample rows of the snapshot are
\* left out: nothing in orchestrate_sql_rag reads them.
_schema_context(S, cat, ids) ==
    LET sel == _select_latest_scan_ids(S, cat, ScanQuery(S, ids))
        promoted == PromoteSelected(S, sel.running_scan_ids)
        scan_ids == Range(sel.latest_scan_ids)
        tables == TablesOfScans(cat, scan_ids)
        conn_of(row) == S[row.scan_id].connection_id
        with_tables == {conn_of(tables[k]) : k \in 1..Len(tables)}
        rows_of(c) == SelectSeq(tables, LAMBDA row : conn_of(row) = c)
        snapshot_table(row) ==
            [schema |-> row.table.schema, name |-> row.table.name,
             columns |-> Take(row.table.columns, schema_context_columns_limit)]
        tables_by_connection(c) ==
            LET kept == Take(rows_of(c), schema_context_tables_limit)
            IN  [k \in 1..Len(kept) |-> snapshot_table(kept[k])]
        allowed(c) ==
            UNION {{Qualify(_normalize_identifier(tables[k].table.schema),
                            _normalize_identifier(tables[k].table.name)),
                    _normalize_identifier(tables[k].table.name)} :
                   k \in {m \in 1..Len(tables) : conn_of(tables[m]) = c}}
    IN  IF ids = <<>>
        THEN [scans |-> S, schema_context |-> [connections |-> <<>>],
              allowed_tables_by_connection |-> <<>>]
        ELSE IF scan_ids = {}
        THEN [scans |-> promoted, schema_context |-> [connections |-> <<>>],
              allowed_tables_by_connection |-> <<>>]
        ELSE [scans |-> promoted,
              schema_context |->
                [connections |->
                    [k \in 1..Len(ids) |->
                        [connection_id |-> ids[k], tables |-> tables_by_connection(ids[k])]]],
              allowed_tables_by_connection |-> [c \in with_tables |-> allowed(c)]]

\* the lookup as it would be if the allowlists of all connections were merged
AllowedTables_Merged(by_connection, connection_id) ==
    UNION {by_connection[c] : c \in DOMAIN by_connection}

\* allowed_tables_by_connection.get(connection_id, set())
AllowedTables(by_connection, connection_id) ==
    IF connection_id \in DOMAIN by_connection THEN by_connection[connection_id] ELSE {}

\* the check as it would be if it were skipped
has_any_table_Skipped(context) == TRUE

\* any(connection.get("tables") for connection in connections_payload)
has_any_table(context) ==
    \E k \in 1..Len(context.connections) : Len(context.connections[k].tables) > 0

(***************************************************************************)
(* Fallback planner.  A question is the sequence of its words; the         *)
(* questions of the model are lower-case and hold no punctuation, so       *)
(* _normalize_question leaves them as they are.                            *)
(***************************************************************************)
\* INTENT_LIST_PATTERN.search(question)
INTENT_LIST_PATTERN(question) ==
    \E i \in 1..Len(question) :
        question[i] \in {"listar", "liste", "mostrar", "mostre", "citar", "cite",
                         "exemplo", "exemplos", "registro", "registros"}

\* INTENT_TOP_PATTERN.search(question)
INTENT_TOP_PATTERN(question) ==
    \/ \E i \in 1..Len(question) :
          question[i] \in {"maior", "menor", "top", "último", "última", "ultimo", "primeiro"}
    \/ \E i \in 1..(Len(question) - 1) :
          <<question[i], question[i + 1]>> \in
              {<<"mais", "caro">>, <<"mais", "barata">>, <<"mais", "alto">>, <<"mais", "baixo">>}

\* LIST_LIMIT_PATTERN.search(question): the positions of the matches
LIST_LIMIT_PATTERN(question) ==
    {i \in 1..(Len(question) - 1) :
        /\ question[i] \in {"cite", "listar", "liste", "mostre", "mostrar"}
        /\ question[i + 1] \in Numerals}

NUMERIC_COLUMN_CANDIDATES ==
    <<"value", "valor", "price", "preco", "amount", "total", "cost", "volume",
      "market_cap", "marketcap">>

LIST_ORDER_CANDIDATES == <<"id", "created_at", "updated_at", "timestamp", "date", "data">>

\* words of the model that hold a shorter word of the model inside them
Inside == ("subassets" :> {"assets"})

\* name in normalized
SubstringOf(name, question) ==
    \E i \in 1..Len(question) :
        \/ question[i] = name
        \/ question[i] \in DOMAIN Inside /\ name \in Inside[question[i]]

RECURSIVE Flatten(_)
Flatten(seqs) == IF seqs = <<>> THEN <<>> ELSE Head(seqs) \o Flatten(Tail(seqs))

_flatten_schema_tables(context) ==
    Flatten([k \in 1..Len(context.connections) |->
        [m \in 1..Len(context.connections[k].tables) |->
            [connection_id |-> context.connections[k].connection_id,
             schema |-> context.connections[k].tables[m].schema,
             name |-> context.connections[k].tables[m].name,
             columns |-> context.connections[k].tables[m].columns]]])

\* the snapshot as it would be if the columns were moved out of it
\* (table.pop("columns")) instead of read
SnapshotAfterFlatten_ColumnsPopped(context) ==
    [connections |->
        [k \in 1..Len(context.connections) |->
            [context.connections[k] EXCEPT !.tables =
                [m \in 1..Len(context.connections[k].tables) |->
                    [context.connections[k].tables[m] EXCEPT !.columns = <<>>]]]]]

\* the snapshot after fallback_plan ran on it: _flatten_schema_tables (lines
\* 148-161) reads the connections and tables with .get and appends new dicts
\* to a new list, and nothing later in fallback_plan assigns to them
SnapshotAfterFlatten(context) == context

\* the candidates as they would be with word-boundary and substring matches
\* taken together
_match_table_candidates_All(question, tables) ==
    SelectSeq(tables, LAMBDA t : SubstringOf(Lower(t.name), question))

_match_table_candidates(question, tables) ==
    LET exact(t) == \E i \in 1..Len(question) : question[i] = Lower(t.name)
        exact_matches == SelectSeq(tables, exact)
        fuzzy_matches ==
            SelectSeq(tables, LAMBDA t : ~exact(t) /\ SubstringOf(Lower(t.name), question))
    IN  IF exact_matches # <<>> THEN exact_matches ELSE fuzzy_matches

\* the first candidate that is a column, else the first column; None without columns
FirstCandidate(candidates, columns) ==
    IF \E k \in 1..Len(candidates) : candidates[k] \in Range(columns)
    THEN candidates[CHOOSE k \in 1..Len(candidates) :
            /\ candidates[k] \in Range(columns)
            /\ \A m \in 1..(k - 1) : candidates[m] \notin Range(columns)]
    ELSE IF columns # <<>> THEN columns[1] ELSE None

_select_columns(table) ==
    LET preferred ==
            SelectSeq(<<"id", "name", "symbol", "ticker", "price", "value", "created_at">>,
                      LAMBDA c : c \in Range(table.columns))
    IN  IF preferred # <<>> THEN Take(preferred, 4)
        ELSE IF table.columns # <<>> THEN Take(table.columns, 4) ELSE <<"*">>

_pick_numeric_column(table) == FirstCandidate(NUMERIC_COLUMN_CANDIDATES, table.columns)

_pick_order_column(table) == FirstCandidate(LIST_ORDER_CANDIDATES, table.columns)

\* ', '.join(columns), as lexemes
RECURSIVE JoinColumns(_)
JoinColumns(columns) ==
    IF Len(columns) <= 1 THEN columns
    ELSE <<Head(columns), ",">> \o JoinColumns(Tail(columns))

\* PlannerQuery: connection_id is <<>> for None, <<n>> for the integer n
PlannerQuery(name, sql, connection_id) ==
    [name |-> name, sql |-> sql, connection_id |-> connection_id]

\* PlannerResponse: of a clarifying question only the fixed part of its text
\* is kept (not the table names it lists); None when there is none
PlannerResponse(decision, queries, clarifying_question) ==
    [decision |-> decision, queries |-> queries, clarifying_question |-> clarifying_question]

fallback_plan(question, context, ids, max_rows) ==
    LET tables == _flatten_schema_tables(context)
        matched == _match_table_candidates(question, tables)
        candidates == IF matched = <<>> /\ Len(tables) = 1 THEN tables ELSE matched
        table == candidates[1]
        \* table.get("connection_id") or (connection_ids[0] if connection_ids else None);
        \* 0 is what "not connection_id" holds of
        connection_id ==
            IF table.connection_id # 0 THEN table.connection_id
            ELSE IF ids # <<>> THEN ids[1] ELSE 0
        full_table == Qualify(table.schema, table.name)
        limit_match == LIST_LIMIT_PATTERN(question)
        first_match == CHOOSE i \in limit_match : \A j \in limit_match : i <= j
        limit ==
            IF limit_match # {}
            THEN (IF NumVal[question[first_match + 1]] < max_rows
                  THEN NumVal[question[first_match + 1]] ELSE max_rows)
            ELSE (IF 5 < max_rows THEN 5 ELSE max_rows)
        columns == _select_columns(table)
        order_col == _pick_order_column(table)
        picked == _pick_numeric_column(table)
        numeric_column == IF picked # None THEN picked ELSE columns[1]
        direction == IF SubstringOf("menor", question) THEN "ASC" ELSE "DESC"
        order_clause == IF order_col # None THEN <<"ORDER", "BY", order_col, "DESC">> ELSE <<>>
    IN  IF candidates = <<>>
        THEN PlannerResponse("need_clarification", <<>>, "Qual tabela devo usar para responder?")
        ELSE IF Len(candidates) > 1
        THEN PlannerResponse("need_clarification", <<>>, "Qual tabela devo usar: {names}?")
        ELSE IF connection_id = 0 \/ table.name = ""
        THEN PlannerResponse("need_clarification", <<>>, "Qual conexão devo usar para responder?")
        ELSE IF INTENT_TOP_PATTERN(question)
        THEN PlannerResponse("run_selects",
                <<PlannerQuery("fallback_top",
                    <<"SELECT">> \o JoinColumns(columns) \o <<"FROM", full_table,
                      "ORDER", "BY", numeric_column, direction, "LIMIT", "1">>,
                    <<connection_id>>)>>, None)
        ELSE IF INTENT_LIST_PATTERN(question)
        THEN PlannerResponse("run_selects",
                <<PlannerQuery("fallback_list",
                    <<"SELECT">> \o JoinColumns(columns) \o <<"FROM", full_table>>
                      \o order_clause \o <<"LIMIT", Str(limit)>>,
                    <<connection_id>>)>>, None)
        ELSE PlannerResponse("no_sql_needed", <<>>, None)

(***************************************************************************)
(* Engine cache                                                            *)
(***************************************************************************)
\* _build_engine(connection_id, info, cache_key): the cache after the call, and
\* whether create_engine ran and whether the call raised.  ENGINE_CACHE is the
\* set of its keys; the engine of a key is made from the key.  On a miss the
\* engine is stored and its key appended (lines 319-321); the loop condition of
\* line 322 then reads settings.sql_engine_cache_size, which the Settings class
\* of app/config.py does not declare, so the read raises AttributeError before
\* anything is evicted.
_build_engine(cache, order, key) ==
    IF key \in cache
    THEN [cache |-> cache, order |-> order, created |-> FALSE, raised |-> FALSE]
    ELSE [cache |-> cache \cup {key}, order |-> Append(order, key),
          created |-> TRUE, raised |-> TRUE]

\* connection.updated_at.isoformat() of the Connection rows
UpdatedAt == (1 :> "t1") @@ (2 :> "t1")

(***************************************************************************)
(* What the world answers                                                  *)
(***************************************************************************)
\* _call_llm inside try/except httpx.HTTPStatusError with the second _call_llm:
\* "ok": the first request is answered; "retry_ok": the first request is
\* refused with an HTTP status and the second is answered; "error": the first
\* request fails otherwise (timeout, transport); "retry_error": both fail
LlmOutcomes == {"ok", "retry_ok", "error", "retry_error"}

\* the requests of a call that would retry twice
LlmRequests_RetryTwice(http) == IF http \in {"ok", "error"} THEN 1 ELSE 3

LlmRequests(http) == IF http \in {"ok", "error"} THEN 1 ELSE 2

LlmRaises(http) == http \in {"error", "retry_error"}

\* a query of an LLM response that was not read yet: the queries of a
\* response are read (chosen) one at a time, when the executor reaches them
Unread == PlannerQuery("unread", <<>>, <<>>)

\* the SQL texts the Planner LLM writes
PlannerSqls ==
    { <<"SELECT", "updated_at", "FROM", "public.assets">>,
      <<"SELECT", "updated_at", "FROM", "public.orders", "LIMIT", "1000">> }

\* the connection_id of a query of the Planner LLM
ConnectionChoices == {<<>>, <<0>>, <<1>>, <<2>>}

PlannerQueries ==
    {PlannerQuery("q", sql, c) : sql \in PlannerSqls, c \in ConnectionChoices}

\* the responses of the Planner LLM that pass PlannerResponse.model_validate
PlannerResponses ==
    { PlannerResponse("no_sql_needed", <<>>, None),
      PlannerResponse("need_clarification", <<>>, None),
      PlannerResponse("need_clarification", <<>>, "Qual período?"),
      PlannerResponse("refuse", <<>>, None),
      PlannerResponse("use_predefined", <<>>, None) }
    \cup {PlannerResponse("run_selects", [k \in 1..n |-> Unread], None) :
            n \in 0..(sql_max_queries + 1)}

\* the target database on one query: it cannot be reached, or the statement
\* fails (str(exc) may be empty), or it has avail rows
DbOutcomes ==
    { [kind |-> "connect_error", message |-> "could not connect", avail |-> 0],
      [kind |-> "execute_error", message |-> "statement timeout", avail |-> 0],
      [kind |-> "execute_error", message |-> "", avail |-> 0] }
    \cup {[kind |-> "rows", message |-> "", avail |-> n] :
            n \in {0, sql_max_rows, sql_max_rows + 1}}

\* fetchall() in the place of fetchmany(size)
fetchmany_All(avail, size) == avail

\* result.mappings().fetchmany(size): the number of rows fetched
fetchmany(avail, size) == IF avail < size THEN avail ELSE size

(***************************************************************************)
(* orchestrate_sql_rag                                                     *)
(***************************************************************************)
\* error_payload: None, or {"planner_error": ...}, or {"sql_error": {message}}
NoError == [kind |-> None, message |-> None]

ErrorPayload(kind, message) == [kind |-> kind, message |-> message]

\* tool_payload "" (the JSON text is ToolPayload)
EmptyPayload == [empty |-> TRUE, sql_results |-> <<>>, executed_queries |-> <<>>]

Running == [kind |-> "running", answer |-> None, executed_queries |-> <<>>,
            tool_payload |-> EmptyPayload]

Returned(answer, executed, tool_payload) ==
    [kind |-> "returned", answer |-> answer, executed_queries |-> executed,
     tool_payload |-> tool_payload]

Raised(exception) ==
    [kind |-> "raised", answer |-> exception, executed_queries |-> <<>>,
     tool_payload |-> EmptyPayload]

NoStatement == [raw |-> <<>>, sql |-> <<>>, connection_id |-> 0, requested |-> <<>>]

\* the query of an iteration was neither rejected by the validator nor failed
\* on its database; a failure is kept with the attempt it happened in
NoFailure == [attempt |-> -1, message |-> None]

QueryFailure(message) == [attempt |-> attempt, message |-> message]

\* the locals and the log before orchestrate_sql_rag runs
OrchIdle ==
    /\ schema_context = [connections |-> <<>>]
    /\ allowed_tables_by_connection = <<>>
    /\ error_payload = NoError
    /\ sql_results = <<>>
    /\ executed_queries = <<>>
    /\ previous_sql_summary = <<>>
    /\ retry_attempt = FALSE
    /\ attempt = 0
    /\ round_index = 0
    /\ planner_response = PlannerResponse(None, <<>>, None)
    /\ queries_to_run = <<>>
    /\ query = Unread
    /\ query_pos = 0
    /\ outcome = Running
    /\ planner_calls = 0
    /\ planner_requests = 0
    /\ responder_calls = 0
    /\ responder_requests = 0
    /\ db_calls = 0
    /\ last_statement = NoStatement
    /\ responder_payload = <<>>
    /\ planner_error_context = NoError
    /\ planner_invalid = 0
    /\ planner_source = None
    /\ query_failure = NoFailure

\* no call of _select_latest_scan_ids was made
NoSelection == [latest_scan_ids |-> <<>>, running_scan_ids |-> {}]

\* the scan functions are not called on their own
ScansIdle ==
    /\ s_pc = "idle"
    /\ s_before = <<>>
    /\ s_runs = 0
    /\ s_list = <<>>
    /\ s_selected = NoSelection

\* _build_engine is not called on its own
CacheIdle == c_log = <<>>

\* the threads of the server that call _build_engine side by side
Threads == {1, 2}

\* no thread is inside _build_engine
ThreadsIdle ==
    /\ t_pc = [t \in Threads |-> "idle"]
    /\ t_key = [t \in Threads |-> None]
    /\ t_calls = 0

\* RateLimiter.__init__ (lines 54-58), and no call of allow
RateIdle ==
    /\ rl_cache = <<>>
    /\ rl_now = 0
    /\ rl_log = <<>>

\* no scan is being run in the background
ScannerIdle == b_pc = "idle" /\ b_idx = 0

\* the orchestrations that run side by side
Orchs == {1, 2}

\* no orchestration runs next to the one of SpecOrch
OrchsIdle ==
    /\ o_pc = [o \in Orchs |-> "idle"]
    /\ o_ids = [o \in Orchs |-> <<>>]
    /\ o_running = [o \in Orchs |-> {}]
    /\ o_start = <<>>

\* fallback_plan is not called on its own
FallbackIdle ==
    /\ f_pc = "idle"
    /\ f_question = <<>>
    /\ f_context = [connections |-> <<>>]
    /\ f_out = None

\* search_embeddings is not called on its own
SearchIdle ==
    /\ q_pc = "idle"
    /\ q_dist = <<>>
    /\ q_scope = [given |-> FALSE, connection_ids |-> {}, api_route_ids |-> {}]
    /\ q_out = <<>>

\* reindex_embeddings is not called on its own
ReindexIdle ==
    /\ e_docs = <<>>
    /\ e_store = {}
    /\ e_calls = 0
    /\ e_runs = 0
    /\ e_last = None

LibIdle == FallbackIdle /\ SearchIdle /\ ReindexIdle

\* nothing else runs in the process
ProcIdle == ThreadsIdle /\ RateIdle /\ ScannerIdle /\ OrchsIdle /\ LibIdle

\* the keys orchestrate_sql_rag hands to _build_engine
EngineKey(connection_id) == <<connection_id, UpdatedAt[connection_id]>>

\* scan 1 belongs to connection 1, scan 2 to connection 2
Scan1Choices ==
    { ScanRow(1, "completed", TRUE, TRUE, None),
      ScanRow(1, "running", FALSE, FALSE, None),
      ScanRow(1, "running", TRUE, FALSE, None) }

Scan2 == ScanRow(2, "completed", TRUE, TRUE, None)

World(question, ids, scan1, catalog1, order) ==
    [user_question |-> question, connection_ids |-> ids, scans |-> <<scan1, Scan2>>,
     catalog |-> <<catalog1, <<OrdersTable>> >>, ENGINE_CACHE_ORDER |-> order]

\* ENGINE_CACHE_ORDER as earlier orchestrations of the process left it: no
\* engine yet, or the engine of connection 1, or those of both connections
EngineOrders == { <<>>, <<EngineKey(1)>>, <<EngineKey(1), EngineKey(2)>> }

\* the callers, their databases and the engine cache of the process: nobody's
\* question about no connection; a question without list/top intent about
\* connection 1 in every state of its scan, and with the scan completed also
\* in a process that has the engine; a listing question about connection 1,
\* and about connections 2 and 1, with their scans completed
Worlds ==
    {World(<<"qual", "status">>, <<>>, ScanRow(1, "completed", TRUE, TRUE, None),
           <<AssetsTable>>, <<>>)}
    \cup {World(<<"qual", "status">>, <<>>, ScanRow(1, "running", TRUE, FALSE, None),
                <<>>, <<>>)}
    \cup {World(<<"qual", "status">>, <<1>>, s1, c1, <<>>) :
            s1 \in Scan1Choices, c1 \in {<<>>, <<AssetsTable>>}}
    \cup {World(<<"qual", "status">>, <<1>>, ScanRow(1, "completed", TRUE, TRUE, None),
                <<AssetsTable>>, <<EngineKey(1)>>)}
    \cup {World(<<"liste", "3", "assets">>, <<1>>,
                ScanRow(1, "completed", TRUE, TRUE, None), <<AssetsTable>>, order) :
            order \in {<<>>, <<EngineKey(1)>>}}
    \cup {World(<<"liste", "3", "assets">>, <<2, 1>>,
                ScanRow(1, "completed", TRUE, TRUE, None), <<AssetsTable>>, order) :
            order \in EngineOrders}

OrchInit ==
    /\ openai_api_key \in {"", "sk-key"}
    /\ db_dialect \in {"postgres", "mysql"}
    /\ \E w \in Worlds :
          /\ user_question = w.user_question
          /\ connection_ids = w.connection_ids
          /\ scans = w.scans
          /\ catalog = w.catalog
          /\ ENGINE_CACHE_ORDER = w.ENGINE_CACHE_ORDER
          /\ ENGINE_CACHE = Range(w.ENGINE_CACHE_ORDER)
    /\ pc = "start"
    /\ OrchIdle
    /\ ScansIdle
    /\ CacheIdle
    /\ ProcIdle
    /\ v_sql = <<>>
    /\ v_n = 0
    /\ v_pc = "idle"
    /\ v_out = NoVerdict

\* the return as it would be if every return statement handed out the
\* executed_queries list of the attempt
Return_WithQueries(answer, executed, tool_payload) ==
    /\ pc' = "returned"
    /\ outcome' = Returned(answer, executed_queries, tool_payload)

\* return answer, executed_queries, tool_payload
Return(answer, executed, tool_payload) ==
    /\ pc' = "returned"
    /\ outcome' = Returned(answer, executed, tool_payload)

\* an exception leaves orchestrate_sql_rag
Raise(exception) ==
    /\ pc' = "raised"
    /\ outcome' = Raised(exception)

\* lines 787-794: the configuration checks
CheckSettings ==
    /\ pc = "start"
    /\ IF openai_api_key = ""
       THEN Raise("RuntimeError: OPENAI_API_KEY is required")
       ELSE IF db_dialect # "postgres"
       THEN Return("Dialeto de banco ainda não suportado para execução segura.",
                   <<>>, EmptyPayload)
       ELSE pc' = "reconcile" /\ UNCHANGED outcome
    /\ UNCHANGED <<vvars, svars, cvars, procvars, worldvars, dbvars, localvars, cachevars, logvars>>

\* line 797: reconcile_scan_status(db, connection_ids)
ReconcileScans ==
    /\ pc = "reconcile"
    /\ scans' = reconcile_scan_status(scans, catalog, connection_ids)
    /\ pc' = "schema"
    /\ UNCHANGED <<vvars, svars, cvars, procvars, worldvars, catalog, localvars, outcome, cachevars, logvars>>

\* lines 798-807: the schema context, the catalog-absent return, the first
\* assignments of the locals
LoadSchemaContext ==
    /\ pc = "schema"
    /\ LET r == _schema_context(scans, catalog, connection_ids)
       IN  /\ scans' = r.scans
           /\ schema_context' = r.schema_context
           /\ allowed_tables_by_connection' = r.allowed_tables_by_connection
           /\ IF ~has_any_table(r.schema_context)
              THEN Return("Não há catálogo/scan concluído. Execute o scan/reindexação do catálogo.",
                          <<>>, EmptyPayload)
              ELSE pc' = "attempt" /\ UNCHANGED outcome
    /\ error_payload' = NoError
    /\ sql_results' = <<>>
    /\ executed_queries' = <<>>
    /\ attempt' = 0
    /\ UNCHANGED <<vvars, svars, cvars, procvars, worldvars, catalog, previous_sql_summary, retry_attempt,
                   round_index, planner_response, queries_to_run, query, query_pos,
                   cachevars, logvars>>

\* range(settings.planner_retry_limit + 1)
AttemptRange == 0..planner_retry_limit

\* range(settings.agent_select_rounds)
RoundRange == 0..(agent_select_rounds - 1)

\* the head of the attempt loop as it would be without lines 812-813: the
\* lists of the attempt before are kept
BeginAttempt_KeepsResults ==
    /\ pc = "attempt"
    /\ IF attempt \in AttemptRange
       THEN /\ error_payload' = IF attempt = 0 THEN NoError ELSE error_payload
            /\ UNCHANGED <<sql_results, executed_queries>>
            /\ previous_sql_summary' = <<>>
            /\ retry_attempt' = FALSE
            /\ round_index' = 0
            /\ pc' = "round"
            /\ UNCHANGED outcome
       ELSE /\ Return("Não foi possível concluir a resposta.", <<>>, EmptyPayload)
            /\ UNCHANGED <<error_payload, sql_results, executed_queries,
                           previous_sql_summary, retry_attempt, round_index>>
    /\ UNCHANGED <<vvars, svars, cvars, procvars, worldvars, dbvars, schema_context, allowed_tables_by_connection,
                   attempt, planner_response, queries_to_run, query, query_pos,
                   cachevars, logvars>>

\* lines 809-815 (and 1098 when the attempts are used up): the head of the
\* attempt loop
BeginAttempt ==
    /\ pc = "attempt"
    /\ IF attempt \in AttemptRange
       THEN /\ error_payload' = IF attempt = 0 THEN NoError ELSE error_payload
            /\ sql_results' = <<>>
            /\ executed_queries' = <<>>
            /\ previous_sql_summary' = <<>>
            /\ retry_attempt' = FALSE
            /\ round_index' = 0
            /\ pc' = "round"
            /\ UNCHANGED outcome
       ELSE /\ Return("Não foi possível concluir a resposta.", <<>>, EmptyPayload)
            /\ UNCHANGED <<error_payload, sql_results, executed_queries,
                           previous_sql_summary, retry_attempt, round_index>>
    /\ UNCHANGED <<vvars, svars, cvars, procvars, worldvars, dbvars, schema_context, allowed_tables_by_connection,
                   attempt, planner_response, queries_to_run, query, query_pos,
                   cachevars, logvars>>

\* the test as it would be if every question had an intent
HasIntent_Always(question) == TRUE

\* INTENT_LIST_PATTERN.search(user_question) or INTENT_TOP_PATTERN.search(user_question)
HasIntent(question) == INTENT_LIST_PATTERN(question) \/ INTENT_TOP_PATTERN(question)

\* lines 816-864: one round asks the Planner; an invalid response goes to the
\* fallback planner or ends the attempt
CallPlanner ==
    /\ pc = "round"
    /\ IF round_index \notin RoundRange
       THEN /\ pc' = "attempt_end"
            /\ UNCHANGED <<outcome, error_payload, retry_attempt, planner_response,
                           planner_calls, planner_requests, plannerlog, schema_context>>
       ELSE \E http \in LlmOutcomes :
            /\ planner_calls' = planner_calls + 1
            /\ planner_requests' = planner_requests + LlmRequests(http)
            /\ planner_error_context' = error_payload
            /\ IF LlmRaises(http)
               THEN /\ Raise("httpx.HTTPError")
                    /\ UNCHANGED <<error_payload, retry_attempt, planner_response,
                                   planner_invalid, planner_source, schema_context>>
               ELSE \/ \* the response is no JSON or fails PlannerResponse.model_validate
                       /\ error_payload' =
                             ErrorPayload("planner_error", "Planner retornou JSON inválido.")
                       /\ planner_invalid' = planner_invalid + 1
                       /\ UNCHANGED outcome
                       /\ IF HasIntent(user_question)
                          THEN /\ planner_response' =
                                     fallback_plan(user_question, schema_context,
                                                   connection_ids, sql_max_rows)
                               /\ schema_context' = SnapshotAfterFlatten(schema_context)
                               /\ planner_source' = "fallback"
                               /\ pc' = "dispatch"
                               /\ UNCHANGED retry_attempt
                          ELSE /\ retry_attempt' = TRUE
                               /\ pc' = "attempt_end"
                               /\ UNCHANGED <<planner_response, planner_source,
                                               schema_context>>
                    \/ \E response \in PlannerResponses :
                       /\ planner_response' = response
                       /\ planner_source' = "llm"
                       /\ pc' = "dispatch"
                       /\ UNCHANGED <<outcome, error_payload, retry_attempt, planner_invalid,
                                       schema_context>>
    /\ UNCHANGED <<vvars, svars, cvars, procvars, worldvars, dbvars, allowed_tables_by_connection,
                   sql_results, executed_queries, previous_sql_summary, attempt,
                   round_index, queries_to_run, query, query_pos, cachevars,
                   responder_calls, responder_requests, db_calls, last_statement,
                   responder_payload, query_failure>>

\* planner_response.clarifying_question or "Pode fornecer mais detalhes?"
ClarifyingAnswer(response) ==
    IF response.clarifying_question # None
    THEN response.clarifying_question
    ELSE "Pode fornecer mais detalhes?"

\* the queries of the response without the cut to sql_max_queries
FirstQueries_Uncut(queries) == queries

\* planner_response.queries[: settings.sql_max_queries]
FirstQueries(queries) == Take(queries, sql_max_queries)

\* lines 877-937 without the Responder call of 878-902: the decision is
\* dispatched.  predefined_queries_catalog() is empty, so use_predefined finds
\* no match and leaves queries_to_run empty.
Dispatch ==
    /\ pc = "dispatch"
    /\ LET fallback == fallback_plan(user_question, schema_context, connection_ids, sql_max_rows)
           response ==
               IF planner_response.decision = "need_clarification" /\ HasIntent(user_question)
               THEN fallback
               ELSE planner_response
           to_run ==
               IF response.decision = "run_selects" THEN FirstQueries(response.queries)
               ELSE <<>>
       IN  IF planner_response.decision = "no_sql_needed"
           THEN /\ pc' = "respond_no_sql"
                /\ UNCHANGED <<outcome, planner_response, queries_to_run, error_payload,
                               query_pos, planner_source>>
           ELSE /\ planner_response' = response
                /\ planner_source' =
                      IF planner_response.decision = "need_clarification"
                         /\ HasIntent(user_question)
                      THEN "fallback" ELSE planner_source
                /\ IF response.decision = "need_clarification"
                   THEN /\ Return(ClarifyingAnswer(response), <<>>, EmptyPayload)
                        /\ UNCHANGED <<queries_to_run, error_payload, query_pos>>
                   ELSE IF response.decision = "refuse"
                   THEN /\ Return("planner_response.reason", <<>>, EmptyPayload)
                        /\ UNCHANGED <<queries_to_run, error_payload, query_pos>>
                   ELSE /\ queries_to_run' = to_run
                        /\ IF to_run = <<>>
                           THEN /\ Return("Não foi possível identificar uma consulta segura para executar.",
                                          <<>>, EmptyPayload)
                                /\ UNCHANGED <<error_payload, query_pos>>
                           ELSE /\ error_payload' = NoError
                                /\ query_pos' = 1
                                /\ pc' = "query"
                                /\ UNCHANGED outcome
    /\ schema_context' =
          IF planner_response.decision = "need_clarification" /\ HasIntent(user_question)
          THEN SnapshotAfterFlatten(schema_context)
          ELSE schema_context
    /\ UNCHANGED <<vvars, svars, cvars, procvars, worldvars, dbvars, allowed_tables_by_connection,
                   sql_results, executed_queries, previous_sql_summary, retry_attempt,
                   attempt, round_index, query, cachevars, planner_calls,
                   planner_requests, responder_calls, responder_requests, db_calls,
                   last_statement, responder_payload, planner_error_context,
                   planner_invalid, query_failure>>

\* query.connection_id or (connection_ids[0] if connection_ids else None);
\* 0 stands for None as well: both are what "not connection_id" holds of
ResolveConnection(requested, ids) ==
    IF requested # <<>> /\ requested[1] # 0 THEN requested[1]
    ELSE IF ids # <<>> THEN ids[1] ELSE 0

SqlError(message) == ErrorPayload("sql_error", message)

\* the entry of sql_results; of the rows their number is kept
SqlResult(q, safe_sql, rows, connection_id) ==
    [name |-> q.name, sql |-> safe_sql, rows |-> rows, row_count |-> rows,
     truncated |-> (rows >= sql_max_rows), connection_id |-> connection_id]

ExecutedQuery(q, safe_sql, rows, connection_id) ==
    [name |-> q.name, sql |-> safe_sql, rows_returned |-> rows,
     truncated |-> (rows >= sql_max_rows), connection_id |-> connection_id]

\* lines 939-1021: one iteration of "for query in queries_to_run"; a break
\* and the end of the list both leave the loop
RunQuery ==
    /\ pc = "query"
    /\ \E q \in (IF queries_to_run[query_pos] = Unread
                 THEN PlannerQueries ELSE {queries_to_run[query_pos]}) :
       LET connection_id == ResolveConnection(q.connection_id, connection_ids)
           allowed_tables == AllowedTables(allowed_tables_by_connection, connection_id)
           verdict == _validate_sql(q.sql, allowed_tables, sql_max_rows)
           key == EngineKey(connection_id)
           engine == _build_engine(ENGINE_CACHE, ENGINE_CACHE_ORDER, key)
           break(error) ==
               /\ error_payload' = error
               /\ pc' = "round_end"
               /\ UNCHANGED <<outcome, sql_results, executed_queries, query_pos>>
           not_sent == last_statement' = NoStatement /\ UNCHANGED <<cachevars, db_calls>>
           no_failure == query_failure' = NoFailure
           \* lines 983-1021: the statement on the target database
           execute(db) ==
               LET sent == db.kind # "connect_error"
                   rows == IF db.kind = "rows" THEN fetchmany(db.avail, sql_max_rows) ELSE 0
                   error_message == IF db.kind = "rows" THEN "" ELSE db.message
               IN  /\ db_calls' = IF sent THEN db_calls + 1 ELSE db_calls
                   /\ last_statement' =
                        IF sent
                        THEN [raw |-> q.sql, sql |-> verdict.sql,
                              connection_id |-> connection_id, requested |-> q.connection_id]
                        ELSE NoStatement
                   /\ query_failure' =
                        IF db.kind = "rows" THEN NoFailure ELSE QueryFailure(db.message)
                   /\ IF error_message # ""
                      THEN break(SqlError(error_message))
                      ELSE /\ sql_results' =
                                Append(sql_results, SqlResult(q, verdict.sql, rows, connection_id))
                           /\ executed_queries' =
                                Append(executed_queries,
                                       ExecutedQuery(q, verdict.sql, rows, connection_id))
                           /\ query_pos' = query_pos + 1
                           /\ pc' = IF query_pos < Len(queries_to_run) THEN "query" ELSE "round_end"
                           /\ UNCHANGED <<outcome, error_payload>>
       IN  /\ query' = q
           /\ IF connection_id # 0 /\ connection_id \notin Range(connection_ids)
              THEN /\ break(SqlError("Conexão não permitida para esta consulta."))
                   /\ not_sent /\ no_failure
              ELSE IF connection_id = 0
              THEN /\ break(SqlError("Nenhuma conexão disponível para executar a consulta."))
                   /\ not_sent /\ no_failure
              ELSE IF ~verdict.ok
              THEN /\ break(SqlError(verdict.error))
                   /\ not_sent
                   /\ query_failure' = QueryFailure(verdict.error)
              ELSE IF connection_id \notin Connections
              THEN break(SqlError("Conexão não encontrada.")) /\ not_sent /\ no_failure
              ELSE \E decrypted \in BOOLEAN :
                   IF ~decrypted
                   THEN /\ Raise("RuntimeError: Falha ao descriptografar a senha da conexão.")
                        /\ not_sent /\ no_failure
                        /\ UNCHANGED <<error_payload, sql_results, executed_queries, query_pos>>
                   ELSE /\ ENGINE_CACHE' = engine.cache
                        /\ ENGINE_CACHE_ORDER' = engine.order
                        /\ IF engine.raised
                           THEN /\ Raise("AttributeError: 'Settings' object has no attribute 'sql_engine_cache_size'")
                                /\ last_statement' = NoStatement
                                /\ no_failure
                                /\ UNCHANGED <<db_calls, error_payload, sql_results,
                                               executed_queries, query_pos>>
                           ELSE \E db \in DbOutcomes : execute(db)
    /\ UNCHANGED <<vvars, svars, cvars, procvars, worldvars, dbvars, schema_context, allowed_tables_by_connection,
                   previous_sql_summary, retry_attempt, attempt, round_index,
                   planner_response, queries_to_run, planner_calls, planner_requests,
                   responder_calls, responder_requests, responder_payload, plannerlog>>

\* the test as it would be with one more retry
RetriesLeft_OneMore(a) == a <= planner_retry_limit

\* attempt < settings.planner_retry_limit
RetriesLeft(a) == a < planner_retry_limit

\* the previous_sql_results_summary of the next round
SqlSummary(results, round) ==
    [k \in 1..Len(results) |->
        [name |-> results[k].name, sql |-> results[k].sql,
         row_count |-> results[k].row_count, truncated |-> results[k].truncated,
         connection_id |-> results[k].connection_id, round |-> round]]

\* lines 1023-1053: after the queries of a round
EndRound ==
    /\ pc = "round_end"
    /\ IF error_payload # NoError
       THEN /\ IF RetriesLeft(attempt)
               THEN pc' = "attempt_end" /\ UNCHANGED outcome
               ELSE Return("Não foi possível executar as consultas solicitadas. Pode ajustar a pergunta?",
                           <<>>, EmptyPayload)
            /\ UNCHANGED <<previous_sql_summary, round_index>>
       ELSE /\ previous_sql_summary' = SqlSummary(sql_results, round_index + 1)
            /\ UNCHANGED outcome
            /\ IF round_index < agent_select_rounds - 1
               THEN round_index' = round_index + 1 /\ pc' = "round"
               ELSE pc' = "respond" /\ UNCHANGED round_index
    /\ UNCHANGED <<vvars, svars, cvars, procvars, worldvars, dbvars, schema_context, allowed_tables_by_connection,
                   error_payload, sql_results, executed_queries, retry_attempt, attempt,
                   planner_response, queries_to_run, query, query_pos, cachevars, logvars>>

\* lines 1093-1096: after the round loop was left by break
EndAttempt ==
    /\ pc = "attempt_end"
    /\ IF retry_attempt /\ ~RetriesLeft(attempt)
       THEN /\ Return("Não foi possível entender a decisão do planner no momento. Tente novamente.",
                      <<>>, EmptyPayload)
            /\ UNCHANGED attempt
       ELSE /\ attempt' = attempt + 1
            /\ pc' = "attempt"
            /\ UNCHANGED outcome
    /\ UNCHANGED <<vvars, svars, cvars, procvars, worldvars, dbvars, schema_context, allowed_tables_by_connection,
                   error_payload, sql_results, executed_queries, previous_sql_summary,
                   retry_attempt, round_index, planner_response, queries_to_run, query,
                   query_pos, cachevars, logvars>>

\* item["rows"] for every item
SampleRows_Full(results) == results

\* item["rows"][: settings.schema_context_sample_rows_limit] for every item
SampleRows(results) ==
    [k \in 1..Len(results) |->
        [results[k] EXCEPT !.rows =
            IF @ < schema_context_sample_rows_limit THEN @
            ELSE schema_context_sample_rows_limit]]

\* json.dumps({"request_id", "sql_results", "executed_queries"})
ToolPayload(results, executed) ==
    [empty |-> FALSE, request_id |-> "str(uuid4())", sql_results |-> SampleRows(results),
     executed_queries |-> executed]

\* the Responder call and what follows it; with_payload: the call of lines
\* 1055-1091; without: the call of lines 878-902
CallResponder(with_payload) ==
    \E http \in LlmOutcomes, valid \in BOOLEAN :
        /\ responder_calls' = responder_calls + 1
        /\ responder_requests' = responder_requests + LlmRequests(http)
        /\ responder_payload' = sql_results
        /\ IF LlmRaises(http)
           THEN Raise("httpx.HTTPError")
           ELSE IF ~valid
           THEN Return("Não foi possível formatar a resposta final. Pode tentar novamente?",
                       <<>>, EmptyPayload)
           ELSE Return("responder.answer", executed_queries,
                       IF with_payload THEN ToolPayload(sql_results, executed_queries)
                       ELSE EmptyPayload)
        /\ UNCHANGED <<vvars, svars, cvars, procvars, worldvars, dbvars, localvars, cachevars, planner_calls,
                       planner_requests, db_calls, last_statement, plannerlog,
                       query_failure>>

\* lines 1055-1091
Respond == pc = "respond" /\ CallResponder(TRUE)

\* lines 878-902
RespondNoSql == pc = "respond_no_sql" /\ CallResponder(FALSE)

OrchNext ==
    \/ CheckSettings
    \/ ReconcileScans
    \/ LoadSchemaContext
    \/ BeginAttempt
    \/ CallPlanner
    \/ Dispatch
    \/ RunQuery
    \/ EndRound
    \/ EndAttempt
    \/ Respond
    \/ RespondNoSql

SpecOrch == OrchInit /\ [][OrchNext]_vars

\* orchestrate_sql_rag is one sequential function: while the LLM calls and the
\* database calls it waits for come back, its next statement is executed.
\* The steps that build the snapshot, call the Planner, dispatch its decision
\* and run a query can be taken exactly at their position, so their weak
\* fairness is written with the position in place of ENABLED
SpecOrchLive ==
    /\ SpecOrch
    /\ WF_vars(CheckSettings)
    /\ WF_vars(ReconcileScans)
    /\ ([]<>(pc # "schema") \/ []<><<LoadSchemaContext>>_vars)
    /\ WF_vars(BeginAttempt)
    /\ ([]<>(pc # "round") \/ []<><<CallPlanner>>_vars)
    /\ ([]<>(pc # "dispatch") \/ []<><<Dispatch>>_vars)
    /\ ([]<>(pc # "query") \/ []<><<RunQuery>>_vars)
    /\ WF_vars(EndRound)
    /\ WF_vars(EndAttempt)
    /\ WF_vars(Respond)
    /\ WF_vars(RespondNoSql)

(***************************************************************************)
(* The query loop of one round (lines 939-1021) on its own: the first      *)
(* round of the first attempt, entered with the queries the Planner LLM    *)
(* returned                                                                *)
(***************************************************************************)
\* the orchestrations that reach the query loop
RoundWorlds ==
    {w \in Worlds :
        has_any_table(_schema_context(
            reconcile_scan_status(w.scans, w.catalog, w.connection_ids),
            w.catalog, w.connection_ids).schema_context)}

\* the state in which line 939 is reached for the first time
RoundInit ==
    /\ openai_api_key = "sk-key"
    /\ db_dialect = "postgres"
    /\ \E w \in RoundWorlds :
          LET r == _schema_context(
                       reconcile_scan_status(w.scans, w.catalog, w.connection_ids),
                       w.catalog, w.connection_ids)
          IN  /\ user_question = w.user_question
              /\ connection_ids = w.connection_ids
              /\ scans = r.scans
              /\ catalog = w.catalog
              /\ schema_context = r.schema_context
              /\ allowed_tables_by_connection = r.allowed_tables_by_connection
              /\ ENGINE_CACHE_ORDER = w.ENGINE_CACHE_ORDER
              /\ ENGINE_CACHE = Range(w.ENGINE_CACHE_ORDER)
    /\ \E n \in 1..RoundQueries :
          /\ queries_to_run = [k \in 1..n |-> Unread]
          /\ planner_response =
                PlannerResponse("run_selects", [k \in 1..n |-> Unread], None)
    /\ query_pos = 1
    /\ pc = "query"
    /\ error_payload = NoError
    /\ sql_results = <<>>
    /\ executed_queries = <<>>
    /\ previous_sql_summary = <<>>
    /\ retry_attempt = FALSE
    /\ attempt = 0
    /\ round_index = 0
    /\ query = Unread
    /\ outcome = Running
    /\ planner_calls = 1
    /\ planner_requests = 1
    /\ responder_calls = 0
    /\ responder_requests = 0
    /\ db_calls = 0
    /\ last_statement = NoStatement
    /\ responder_payload = <<>>
    /\ planner_error_context = NoError
    /\ planner_invalid = 0
    /\ planner_source = "llm"
    /\ query_failure = NoFailure
    /\ ScansIdle
    /\ CacheIdle
    /\ ProcIdle
    /\ v_sql = <<>>
    /\ v_n = 0
    /\ v_pc = "idle"
    /\ v_out = NoVerdict

RoundNext == RunQuery

SpecRound == RoundInit /\ [][RoundNext]_vars

(***************************************************************************)
(* The validator on its own: SQL texts composed of fragments               *)
(***************************************************************************)
Fragments ==
    { <<"SELECT", "updated_at">>,
      <<"with", "tmp", "as", "(", "select", "id", "from", "public.assets", ")">>,
      <<"FROM", "\"Assets\"">>,
      <<"from", "secret">>,
      <<"join", "hr.secret">>,
      <<"from", "tmp">>,
      <<"where", "withdrawals">>,
      <<"limit", "3">>,
      <<"LIMIT", "1000">>,
      <<"limit", "ALL">>,
      <<"limit", ":n">>,
      <<";">>,
      <<" ;">>,
      <<"DROP">>,
      <<"for", "update">> }

\* the allowlist of tests/test_sql_orchestrator.py
TestAllowed == {"public.assets", "assets"}

\* no orchestration runs next to the validator
ValidatorInit ==
    /\ v_sql = <<>>
    /\ v_n = 0
    /\ v_pc = "compose"
    /\ v_out = NoVerdict
    /\ openai_api_key = "sk-key"
    /\ db_dialect = "postgres"
    /\ user_question = <<>>
    /\ connection_ids = <<>>
    /\ scans = <<>>
    /\ catalog = <<>>
    /\ pc = "idle"
    /\ OrchIdle
    /\ ENGINE_CACHE = {}
    /\ ENGINE_CACHE_ORDER = <<>>
    /\ ScansIdle
    /\ CacheIdle
    /\ ProcIdle

\* the caller writes one more fragment of the SQL text
ComposeSql ==
    /\ v_pc = "compose"
    /\ v_n < MaxFrags
    /\ \E f \in Fragments : v_sql' = v_sql \o f
    /\ v_n' = v_n + 1
    /\ UNCHANGED <<v_pc, v_out, svars, cvars, procvars, ovars>>

\* _validate_sql(sql, allowed_tables, max_rows)
ValidateSql ==
    /\ v_pc = "compose"
    /\ v_out' = _validate_sql(v_sql, TestAllowed, sql_max_rows)
    /\ v_pc' = "validated"
    /\ UNCHANGED <<v_sql, v_n, svars, cvars, procvars, ovars>>

ValidatorNext == ComposeSql \/ ValidateSql

SpecValidator == ValidatorInit /\ [][ValidatorNext]_vars


(***************************************************************************)
(* The scan functions on their own: reconcile_scan_status and              *)
(* _select_latest_scan_ids on every small scan table                       *)
(***************************************************************************)
\* the Scan rows a scanner leaves behind: running (young or older than
\* stale_minutes), completed, failed
ScanRows ==
    {ScanRow(c, "running", stale, FALSE, None) : c \in Connections, stale \in BOOLEAN}
    \cup {ScanRow(c, "completed", TRUE, TRUE, None) : c \in Connections}
    \cup {ScanRow(c, "failed", TRUE, TRUE, "scan failed") : c \in Connections}

\* the scans argument of _select_latest_scan_ids: scans of the table in any
\* order, none of them twice
ScanLists ==
    {list \in UNION {[1..n -> 1..NumScans] : n \in 0..NumScans} :
        \A i, j \in DOMAIN list : i # j => list[i] # list[j]}

\* no orchestration runs next to the scan functions; scan 1 is a scan of
\* connection 1
ScansInit ==
    /\ scans \in [1..NumScans -> ScanRows]
    /\ scans[1].connection_id = 1
    /\ catalog \in [1..NumScans -> {<<>>, <<AssetsTable>>}]
    /\ connection_ids \in {<<>>, <<1>>, <<2, 1>>}
    /\ s_pc = "ready"
    /\ s_before = <<>>
    /\ s_runs = 0
    /\ s_list = <<>>
    /\ s_selected = NoSelection
    /\ openai_api_key = "sk-key"
    /\ db_dialect = "postgres"
    /\ user_question = <<>>
    /\ pc = "idle"
    /\ OrchIdle
    /\ ENGINE_CACHE = {}
    /\ ENGINE_CACHE_ORDER = <<>>
    /\ CacheIdle
    /\ ProcIdle
    /\ v_sql = <<>>
    /\ v_n = 0
    /\ v_pc = "idle"
    /\ v_out = NoVerdict

ScansUnchanged ==
    UNCHANGED <<vvars, cvars, procvars, worldvars, catalog, localvars, pc, outcome, cachevars, logvars>>

\* reconcile_scan_status(db, connection_ids, stale_minutes); s_pc tells
\* whether the call follows another call with no time passed between them
ReconcileScanStatus ==
    /\ s_pc \in {"ready", "reconciled", "reconciled_again", "aged"}
    /\ s_runs < MaxReconciles
    /\ s_before' = scans
    /\ scans' = reconcile_scan_status(scans, catalog, connection_ids)
    /\ s_runs' = s_runs + 1
    /\ s_pc' = IF s_pc \in {"reconciled", "reconciled_again"}
               THEN "reconciled_again" ELSE "reconciled"
    /\ UNCHANGED <<s_list, s_selected>>
    /\ ScansUnchanged

\* time passes: a running scan that was younger than stale_minutes is now
\* older; no column of a scan row changes
ClockTick ==
    /\ s_pc \in {"ready", "reconciled", "reconciled_again", "aged"}
    /\ \E i \in DOMAIN scans :
          /\ scans[i].status = "running"
          /\ ~scans[i].stale
          /\ scans' = [scans EXCEPT ![i].stale = TRUE]
    /\ s_pc' = "aged"
    /\ UNCHANGED <<s_before, s_runs, s_list, s_selected>>
    /\ ScansUnchanged

\* _select_latest_scan_ids(db, scans) on a list of scans of the table
SelectLatestScanIds ==
    /\ s_pc = "ready"
    /\ \E list \in ScanLists :
          /\ s_list' = list
          /\ s_selected' = _select_latest_scan_ids(scans, catalog, list)
    /\ s_pc' = "selected"
    /\ UNCHANGED <<s_before, s_runs, scans>>
    /\ ScansUnchanged

\* _schema_context(db, connection_ids), called first or after the reconciler
\* as orchestrate_sql_rag calls it; s_before keeps the scan rows it found
SchemaContext ==
    /\ s_pc \in {"ready", "reconciled"}
    /\ LET r == _schema_context(scans, catalog, connection_ids)
       IN  /\ scans' = r.scans
           /\ schema_context' = r.schema_context
           /\ allowed_tables_by_connection' = r.allowed_tables_by_connection
    /\ s_before' = scans
    /\ s_pc' = "context"
    /\ UNCHANGED <<s_runs, s_list, s_selected>>
    /\ UNCHANGED <<vvars, cvars, procvars, worldvars, catalog, error_payload, sql_results,
                   executed_queries, previous_sql_summary, retry_attempt, attempt,
                   round_index, planner_response, queries_to_run, query, query_pos,
                   pc, outcome, cachevars, logvars>>

ScansNext == ReconcileScanStatus \/ ClockTick \/ SelectLatestScanIds \/ SchemaContext

SpecScans == ScansInit /\ [][ScansNext]_vars

(***************************************************************************)
(* _build_engine on its own: any calls in a row in one process             *)
(***************************************************************************)
\* (connection_id, cache_key) of the calls: connection 1 before and after its
\* row was updated, connection 2, and a connection whose updated_at is None
CacheKeys == { <<1, "t1">>, <<1, "t2">>, <<2, "t1">>, <<3, None>> }

\* a fresh process; no orchestration runs next to the calls
CacheInit ==
    /\ ENGINE_CACHE = {}
    /\ ENGINE_CACHE_ORDER = <<>>
    /\ c_log = <<>>
    /\ ProcIdle
    /\ openai_api_key = "sk-key"
    /\ db_dialect = "postgres"
    /\ user_question = <<>>
    /\ connection_ids = <<>>
    /\ scans = <<>>
    /\ catalog = <<>>
    /\ pc = "idle"
    /\ OrchIdle
    /\ ScansIdle
    /\ v_sql = <<>>
    /\ v_n = 0
    /\ v_pc = "idle"
    /\ v_out = NoVerdict

\* _build_engine(connection_id, info, cache_key); the caller may catch what
\* the call raises and call again
BuildEngine ==
    /\ Len(c_log) < MaxAcquires
    /\ \E key \in CacheKeys :
          LET engine == _build_engine(ENGINE_CACHE, ENGINE_CACHE_ORDER, key)
          IN  /\ ENGINE_CACHE' = engine.cache
              /\ ENGINE_CACHE_ORDER' = engine.order
              /\ c_log' = Append(c_log, [key |-> key, created |-> engine.created,
                                         raised |-> engine.raised])
    /\ UNCHANGED <<vvars, svars, procvars, worldvars, dbvars, localvars, pc, outcome, logvars>>

CacheNext == BuildEngine

SpecCache == CacheInit /\ [][CacheNext]_vars

(***************************************************************************)
(* _build_engine called from several threads of the server: the endpoints  *)
(* that reach orchestrate_sql_rag are plain functions, which the server    *)
(* runs on worker threads, and _build_engine takes no lock.  Each line     *)
(* that touches ENGINE_CACHE or ENGINE_CACHE_ORDER is one step.            *)
(***************************************************************************)
ThreadsInit ==
    /\ ENGINE_CACHE = {}
    /\ ENGINE_CACHE_ORDER = <<>>
    /\ c_log = <<>>
    /\ ThreadsIdle
    /\ LibIdle
    /\ RateIdle
    /\ ScannerIdle
    /\ OrchsIdle
    /\ openai_api_key = "sk-key"
    /\ db_dialect = "postgres"
    /\ user_question = <<>>
    /\ connection_ids = <<>>
    /\ scans = <<>>
    /\ catalog = <<>>
    /\ pc = "idle"
    /\ OrchIdle
    /\ ScansIdle
    /\ v_sql = <<>>
    /\ v_n = 0
    /\ v_pc = "idle"
    /\ v_out = NoVerdict

ThreadsUnchanged ==
    UNCHANGED <<vvars, svars, cvars, rvars, bvars, orchvars, libvars, worldvars, dbvars, localvars, pc, outcome, logvars>>

\* lines 307-309: the key is looked up; a hit returns the cached engine
ThreadLookup(t) ==
    /\ t_pc[t] = "idle"
    /\ t_calls < MaxAcquires
    /\ \E key \in CacheKeys :
          IF key \in ENGINE_CACHE
          THEN UNCHANGED <<t_pc, t_key>>
          ELSE /\ t_pc' = [t_pc EXCEPT ![t] = "create"]
               /\ t_key' = [t_key EXCEPT ![t] = key]
    /\ t_calls' = t_calls + 1
    /\ UNCHANGED cachevars
    /\ ThreadsUnchanged

\* lines 310-319: the engine is constructed
ThreadCreate(t) ==
    /\ t_pc[t] = "create"
    /\ t_pc' = [t_pc EXCEPT ![t] = "store"]
    /\ UNCHANGED <<t_key, t_calls, cachevars>>
    /\ ThreadsUnchanged

\* line 320: ENGINE_CACHE[key] = engine
ThreadStore(t) ==
    /\ t_pc[t] = "store"
    /\ ENGINE_CACHE' = ENGINE_CACHE \cup {t_key[t]}
    /\ t_pc' = [t_pc EXCEPT ![t] = "append"]
    /\ UNCHANGED <<t_key, t_calls, ENGINE_CACHE_ORDER>>
    /\ ThreadsUnchanged

\* line 321: ENGINE_CACHE_ORDER.append(key)
ThreadAppend(t) ==
    /\ t_pc[t] = "append"
    /\ ENGINE_CACHE_ORDER' = Append(ENGINE_CACHE_ORDER, t_key[t])
    /\ t_pc' = [t_pc EXCEPT ![t] = "evict"]
    /\ UNCHANGED <<t_key, t_calls, ENGINE_CACHE>>
    /\ ThreadsUnchanged

\* line 322: the loop condition reads settings.sql_engine_cache_size and
\* raises AttributeError; the call is over
ThreadEvict(t) ==
    /\ t_pc[t] = "evict"
    /\ t_pc' = [t_pc EXCEPT ![t] = "idle"]
    /\ t_key' = [t_key EXCEPT ![t] = None]
    /\ UNCHANGED <<t_calls, cachevars>>
    /\ ThreadsUnchanged

ThreadsNext ==
    \E t \in Threads :
        \/ ThreadLookup(t)
        \/ ThreadCreate(t)
        \/ ThreadStore(t)
        \/ ThreadAppend(t)
        \/ ThreadEvict(t)

SpecThreads == ThreadsInit /\ [][ThreadsNext]_vars

(***************************************************************************)
(* RateLimiter (app/main.py): allow is called by the request middleware    *)
(* with the client address as the key; the lock makes each call one step.  *)
(***************************************************************************)
\* the client addresses: one more than the limiter keeps
RateKeys == 1..(max_keys + 1)

\* calls of allow in a row
MaxCalls == rate_limit_per_minute + max_keys + 2

\* the entry of a key in an OrderedDict
Entry(key, timestamps) == [key |-> key, timestamps |-> timestamps]

HasKey(cache, key) == \E i \in DOMAIN cache : cache[i].key = key

\* self.cache.get(key, [])
CacheGet(cache, key) ==
    IF HasKey(cache, key)
    THEN (CHOOSE e \in Range(cache) : e.key = key).timestamps
    ELSE <<>>

\* self.cache[key] = timestamps: a key that is present keeps its place, a new
\* key goes to the end
CacheSet(cache, key, timestamps) ==
    IF HasKey(cache, key)
    THEN [i \in DOMAIN cache |->
             IF cache[i].key = key THEN Entry(key, timestamps) ELSE cache[i]]
    ELSE Append(cache, Entry(key, timestamps))

\* self.cache.move_to_end(key)
move_to_end(cache, key) ==
    SelectSeq(cache, LAMBDA e : e.key # key)
        \o SelectSeq(cache, LAMBDA e : e.key = key)

\* _cleanup: popitem(last=False) while there are more than max_keys entries
RECURSIVE _cleanup(_, _)
_cleanup(cache, bound) ==
    IF Len(cache) > bound THEN _cleanup(Tail(cache), bound) ELSE cache

\* [ts for ts in timestamps if now - ts < self.window_seconds]
InWindow(timestamps, now) == SelectSeq(timestamps, LAMBDA ts : now - ts < window_seconds)

\* allow(key, limit) at the clock reading now: the cache it leaves and its
\* result
allow(cache, now, key, limit) ==
    LET timestamps == InWindow(CacheGet(cache, key), now)
    IN  IF Len(timestamps) >= limit
        THEN [cache |-> CacheSet(cache, key, timestamps), allowed |-> FALSE]
        ELSE LET moved == IF HasKey(cache, key) THEN move_to_end(cache, key) ELSE cache
             IN  [cache |-> _cleanup(CacheSet(moved, key, Append(timestamps, now)), max_keys),
                  allowed |-> TRUE]

RateInit ==
    /\ RateIdle
    /\ ENGINE_CACHE = {}
    /\ ENGINE_CACHE_ORDER = <<>>
    /\ CacheIdle
    /\ ThreadsIdle
    /\ LibIdle
    /\ ScannerIdle
    /\ OrchsIdle
    /\ openai_api_key = "sk-key"
    /\ db_dialect = "postgres"
    /\ user_question = <<>>
    /\ connection_ids = <<>>
    /\ scans = <<>>
    /\ catalog = <<>>
    /\ pc = "idle"
    /\ OrchIdle
    /\ ScansIdle
    /\ v_sql = <<>>
    /\ v_n = 0
    /\ v_pc = "idle"
    /\ v_out = NoVerdict

RateUnchanged == UNCHANGED <<vvars, svars, cvars, tvars, bvars, orchvars, libvars, ovars>>

\* a request to /rag/ask arrives: rate_limiter.allow(key, limit)
Allow ==
    /\ Len(rl_log) < MaxCalls
    /\ \E key \in RateKeys :
          LET call == allow(rl_cache, rl_now, key, rate_limit_per_minute)
          IN  /\ rl_cache' = call.cache
              /\ rl_log' = Append(rl_log, [key |-> key, at |-> rl_now,
                                           allowed |-> call.allowed])
    /\ UNCHANGED rl_now
    /\ RateUnchanged

\* time passes between two calls
RateTick ==
    /\ rl_now < MaxClock
    /\ rl_now' = rl_now + 1
    /\ UNCHANGED <<rl_cache, rl_log>>
    /\ RateUnchanged

RateNext == Allow \/ RateTick

SpecRate == RateInit /\ [][RateNext]_vars

(***************************************************************************)
(* The lifecycle of scans: the start of orchestrations that run side by    *)
(* side (reconcile_scan_status, then the query and the promotion of        *)
(* _schema_context, each a transaction of its own session), the clock, and *)
(* the background scanner run_scan of scan 1                               *)
(***************************************************************************)
\* the encoding attempts of run_scan (lines 456-461)
attempts == <<None, "UTF8", "WIN1252", "LATIN1">>

\* the scan that run_scan was started for
ScannedScan == 1

LifeUnchanged ==
    UNCHANGED <<vvars, svars, cvars, tvars, rvars, libvars, worldvars, localvars, pc, outcome,
                cachevars, logvars>>

\* line 797: reconcile_scan_status(db, connection_ids)
OrchReconcile(o) ==
    /\ o_pc[o] = "reconcile"
    /\ scans' = reconcile_scan_status(scans, catalog, o_ids[o])
    /\ o_pc' = [o_pc EXCEPT ![o] = "schema"]
    /\ UNCHANGED <<catalog, o_ids, o_running, o_start, bvars>>
    /\ LifeUnchanged

\* _schema_context lines 433-440: the scans are read and the latest chosen
OrchSelect(o) ==
    /\ o_pc[o] = "schema"
    /\ o_running' =
          [o_running EXCEPT ![o] =
              IF o_ids[o] = <<>> THEN {}
              ELSE _select_latest_scan_ids(scans, catalog,
                                           ScanQuery(scans, o_ids[o])).running_scan_ids]
    /\ o_pc' = [o_pc EXCEPT ![o] = "promote"]
    /\ UNCHANGED <<scans, catalog, o_ids, o_start, bvars>>
    /\ LifeUnchanged

\* _schema_context lines 441-452: the running scans that were chosen are
\* written as completed and the session commits
OrchPromote(o) ==
    /\ o_pc[o] = "promote"
    /\ scans' = PromoteSelected(scans, o_running[o])
    /\ o_pc' = [o_pc EXCEPT ![o] = "done"]
    /\ UNCHANGED <<catalog, o_ids, o_running, o_start, bvars>>
    /\ LifeUnchanged

\* time passes: a running scan grows older than stale_minutes
LifeTick ==
    /\ \E o \in Orchs : o_pc[o] # "done"
    /\ \E i \in DOMAIN scans :
          /\ scans[i].status = "running"
          /\ ~scans[i].stale
          /\ scans' = [scans EXCEPT ![i].stale = TRUE]
    /\ UNCHANGED <<catalog, orchvars, bvars>>
    /\ LifeUnchanged

\* _checkpoint (lines 291-299): the row gets the checkpoint text; the commit
\* also makes the catalog rows flushed so far visible
Checkpointed(S) == [S EXCEPT ![ScannedScan].error_message = "checkpoint"]

\* run_scan lines 444-454: the scan is written as running
ScanStart ==
    /\ b_pc = "queued"
    /\ scans' = Checkpointed([scans EXCEPT ![ScannedScan].status = "running",
                                           ![ScannedScan].finished_at = FALSE])
    /\ b_pc' = "attempt"
    /\ UNCHANGED <<catalog, b_idx, orchvars>>
    /\ LifeUnchanged

\* _run_scan_once lines 595-606: _cleanup_existing_scan_data deletes the
\* catalog rows of the scan and commits
ScanCleanup ==
    /\ b_pc = "attempt"
    /\ catalog' = [catalog EXCEPT ![ScannedScan] = <<>>]
    /\ scans' = Checkpointed(scans)
    /\ b_pc' = "harvest"
    /\ UNCHANGED <<b_idx, orchvars>>
    /\ LifeUnchanged

\* _run_scan_once lines 689-703: a table row is flushed and the next
\* checkpoint commits it
ScanPersist ==
    /\ b_pc = "harvest"
    /\ catalog' = [catalog EXCEPT ![ScannedScan] = <<AssetsTable>>]
    /\ scans' = Checkpointed(scans)
    /\ b_pc' = "persisted"
    /\ UNCHANGED <<b_idx, orchvars>>
    /\ LifeUnchanged

\* run_scan lines 466-474: _run_scan_once returned and the scan is written
\* as completed
ScanComplete ==
    /\ b_pc = "persisted"
    /\ scans' = [scans EXCEPT ![ScannedScan].status = "completed",
                              ![ScannedScan].finished_at = TRUE,
                              ![ScannedScan].error_message = None]
    /\ b_pc' = "completed"
    /\ UNCHANGED <<catalog, b_idx, orchvars>>
    /\ LifeUnchanged

\* run_scan lines 475-496: _run_scan_once raised.  An encoding error before
\* the last attempt rolls back and goes to the next attempt; any other error
\* is written by _fail_with_context (lines 307-341) and raised
ScanError ==
    /\ b_pc \in {"harvest", "persisted"}
    /\ \E encoding_related \in BOOLEAN :
          IF encoding_related /\ b_idx # Len(attempts)
          THEN /\ b_idx' = b_idx + 1
               /\ b_pc' = "attempt"
               /\ UNCHANGED scans
          ELSE /\ scans' = [scans EXCEPT ![ScannedScan].status = "failed",
                                         ![ScannedScan].finished_at = TRUE,
                                         ![ScannedScan].error_message = "scan failed"]
               /\ b_pc' = "failed"
               /\ UNCHANGED b_idx
    /\ UNCHANGED <<catalog, orchvars>>
    /\ LifeUnchanged

\* two orchestrations on overlapping scopes begin, on any scans and catalog
\* rows, with no scan in the background
RaceInit ==
    /\ scans \in [1..2 -> ScanRows]
    /\ scans[1].connection_id = 1
    /\ catalog \in [1..2 -> {<<>>, <<AssetsTable>>}]
    /\ o_start = scans
    /\ o_pc = [o \in Orchs |-> "reconcile"]
    /\ o_ids \in {[o \in Orchs |-> <<1>>], (1 :> <<1>>) @@ (2 :> <<2, 1>>)}
    /\ o_running = [o \in Orchs |-> {}]
    /\ ScannerIdle
    /\ connection_ids = <<>>
    /\ openai_api_key = "sk-key"
    /\ db_dialect = "postgres"
    /\ user_question = <<>>
    /\ pc = "idle"
    /\ OrchIdle
    /\ ENGINE_CACHE = {}
    /\ ENGINE_CACHE_ORDER = <<>>
    /\ ScansIdle
    /\ CacheIdle
    /\ ThreadsIdle
    /\ LibIdle
    /\ RateIdle
    /\ v_sql = <<>>
    /\ v_n = 0
    /\ v_pc = "idle"
    /\ v_out = NoVerdict

RaceNext ==
    \/ \E o \in Orchs : OrchReconcile(o) \/ OrchSelect(o) \/ OrchPromote(o)
    \/ LifeTick

SpecRace == RaceInit /\ [][RaceNext]_vars

\* scan 1 was created as running for connection 1 and handed to run_scan,
\* next to an earlier scan; two orchestrations begin
LifeInit ==
    /\ \E s2 \in {ScanRow(1, "completed", TRUE, TRUE, None),
                  ScanRow(1, "failed", TRUE, TRUE, "scan failed"),
                  ScanRow(2, "completed", TRUE, TRUE, None)} :
          /\ scans = <<ScanRow(1, "running", FALSE, FALSE, None), s2>>
          /\ catalog = << <<>>, IF s2.status = "completed" THEN <<OrdersTable>> ELSE <<>> >>
    /\ o_start = scans
    /\ o_pc = [o \in Orchs |-> "reconcile"]
    /\ o_ids \in {[o \in Orchs |-> <<1>>], (1 :> <<1>>) @@ (2 :> <<2, 1>>)}
    /\ o_running = [o \in Orchs |-> {}]
    /\ b_pc = "queued"
    /\ b_idx = 1
    /\ connection_ids = <<>>
    /\ openai_api_key = "sk-key"
    /\ db_dialect = "postgres"
    /\ user_question = <<>>
    /\ pc = "idle"
    /\ OrchIdle
    /\ ENGINE_CACHE = {}
    /\ ENGINE_CACHE_ORDER = <<>>
    /\ ScansIdle
    /\ CacheIdle
    /\ ThreadsIdle
    /\ LibIdle
    /\ RateIdle
    /\ v_sql = <<>>
    /\ v_n = 0
    /\ v_pc = "idle"
    /\ v_out = NoVerdict

LifeNext ==
    \/ \E o \in Orchs : OrchReconcile(o) \/ OrchSelect(o) \/ OrchPromote(o)
    \/ LifeTick
    \/ ScanStart
    \/ ScanCleanup
    \/ ScanPersist
    \/ ScanComplete
    \/ ScanError

SpecLife == LifeInit /\ [][LifeNext]_vars


(***************************************************************************)
(* fallback_plan on its own: every short question over every small         *)
(* snapshot                                                                *)
(***************************************************************************)
MaxQuestionLen == 3

\* words of questions: of list intent, of extremum intent, a numeral, names
\* of tables, a word that holds the name of a table, a word of no meaning
QuestionWords == {"liste", "maior", "3", "assets", "orders", "subassets", "dados"}

FallbackQuestions == UNION {[1..n -> QuestionWords] : n \in 1..MaxQuestionLen}

\* snapshots as _schema_context builds them: connection 1 alone or followed
\* by connection 2, each with the tables of its latest scan
FallbackContexts ==
    LET lists1 == {<<>>, <<AssetsTable>>, <<OrdersTable>>, <<AssetsTable, OrdersTable>>}
        lists2 == {<<>>, <<AssetsTable>>}
    IN  {[connections |-> <<[connection_id |-> 1, tables |-> t1]>>] : t1 \in lists1}
        \cup {[connections |-> <<[connection_id |-> 1, tables |-> t1],
                                 [connection_id |-> 2, tables |-> t2]>>] :
                 t1 \in lists1, t2 \in lists2}

FallbackInit ==
    /\ f_pc = "ready"
    /\ f_question \in FallbackQuestions
    /\ f_context \in FallbackContexts
    /\ f_out = None
    /\ SearchIdle
    /\ ReindexIdle
    /\ ThreadsIdle
    /\ RateIdle
    /\ ScannerIdle
    /\ OrchsIdle
    /\ openai_api_key = "sk-key"
    /\ db_dialect = "postgres"
    /\ user_question = <<>>
    /\ connection_ids = <<>>
    /\ scans = <<>>
    /\ catalog = <<>>
    /\ pc = "idle"
    /\ OrchIdle
    /\ ENGINE_CACHE = {}
    /\ ENGINE_CACHE_ORDER = <<>>
    /\ ScansIdle
    /\ CacheIdle
    /\ v_sql = <<>>
    /\ v_n = 0
    /\ v_pc = "idle"
    /\ v_out = NoVerdict

\* fallback_plan(user_question, schema_context, connection_ids, max_rows)
FallbackPlan ==
    /\ f_pc = "ready"
    /\ f_out' = fallback_plan(f_question, f_context, <<1>>, sql_max_rows)
    /\ f_pc' = "planned"
    /\ UNCHANGED <<f_question, f_context, qvars, evars, vvars, svars, cvars, tvars, rvars, bvars,
                   orchvars, ovars>>

FallbackNext == FallbackPlan

SpecFallback == FallbackInit /\ [][FallbackNext]_vars

C31_Tables == _flatten_schema_tables(f_context)

\* the tables whose name is a word of the question
C31_WordMatches ==
    {k \in 1..Len(C31_Tables) : C31_Tables[k].name \in Range(f_question)}

\* the tables whose name is inside the question
C31_SubstringMatches ==
    {k \in 1..Len(C31_Tables) : SubstringOf(C31_Tables[k].name, f_question)}

C31_Matches == IF C31_WordMatches # {} THEN C31_WordMatches ELSE C31_SubstringMatches

\* the table the rule chooses (its place in the snapshot), 0 if it chooses none
C31_Chosen ==
    IF Cardinality(C31_Matches) = 1 THEN CHOOSE k \in C31_Matches : TRUE
    ELSE IF C31_Matches = {} /\ Len(C31_Tables) = 1 THEN 1
    ELSE 0

\* the response is made of the chosen table: it asks for no clarification,
\* and its query (one, when the question has a list or extremum intent) reads
\* FROM that table on the connection of that table
C31_Uses(k) ==
    /\ f_out.decision # "need_clarification"
    /\ HasIntent(f_question) => f_out.decision = "run_selects"
    /\ f_out.decision = "run_selects" =>
          /\ Len(f_out.queries) = 1
          /\ f_out.queries[1].connection_id = <<C31_Tables[k].connection_id>>
          /\ \E i \in 1..(Len(f_out.queries[1].sql) - 1) :
                /\ f_out.queries[1].sql[i] = "FROM"
                /\ f_out.queries[1].sql[i + 1] =
                      Qualify(C31_Tables[k].schema, C31_Tables[k].name)

\* C31: fallback_plan uses the one table that matches the question (matches
\* of a whole word before matches inside a word), or the only table of the
\* snapshot when none matches; in every other case it returns
\* need_clarification with no query.
C31_TableChoice ==
    f_pc = "planned" =>
        IF C31_Chosen # 0 THEN C31_Uses(C31_Chosen)
        ELSE f_out.decision = "need_clarification" /\ f_out.queries = <<>>

\* C31 witness: one table matches a whole word of the question and another
\* only inside a word, and the query reads the first
C31_Witness ==
    /\ f_pc = "planned"
    /\ Cardinality(C31_WordMatches) = 1
    /\ Cardinality(C31_SubstringMatches) = 2
    /\ f_out.decision = "run_selects"
    /\ C31_Uses(C31_Chosen)


(***************************************************************************)
(* Vector search: search_embeddings of app/services/rag.py (the copy the   *)
(* routers of app/main.py reach) and of app/application/services/rag.py.   *)
(* The question is known by the cosine distance of each stored embedding   *)
(* to it, in tenths.                                                       *)
(***************************************************************************)
top_k == 2

\* settings.rag_min_score = 0.2, in tenths
rag_min_score == 2

\* an Embedding row; meta is the content of the document it was made of:
\* connection_id and scan_id of a table or column (0: the key is not there)
Embedding(item_type, item_id, connection_id, scan_id) ==
    [item_type |-> item_type, item_id |-> item_id,
     meta |-> [connection_id |-> connection_id, scan_id |-> scan_id]]

\* the embedding store: a table of an earlier scan of connection 1, a table
\* and a column of its latest scan, a table of connection 2, an API route
StoredEmbeddings ==
    <<Embedding("table", 1, 1, 1), Embedding("table", 2, 1, 2), Embedding("column", 1, 1, 2),
      Embedding("table", 3, 2, 3), Embedding("api_route", 1, 0, 0)>>

Distances == 1..3

\* scope: None, or the dict with connection_ids and api_route_ids
Scope(given, conn_ids, route_ids) ==
    [given |-> given, connection_ids |-> conn_ids, api_route_ids |-> route_ids]

SearchScopes ==
    {Scope(FALSE, {}, {}), Scope(TRUE, {}, {}), Scope(TRUE, {1}, {}), Scope(TRUE, {2}, {}),
     Scope(TRUE, {}, {1}), Scope(TRUE, {1}, {1}), Scope(TRUE, {1}, {2})}

\* scope and (scope.get("connection_ids") or scope.get("api_route_ids"))
HasIds(scope) == scope.given /\ (scope.connection_ids # {} \/ scope.api_route_ids # {})

\* _latest_scan_ids(db, connection_ids): the first completed scan of each
\* connection in the order of the query
_latest_scan_ids(S, conn_ids) ==
    IF conn_ids = {} THEN {}
    ELSE LET completed ==
                 SortScans(S, {i \in DOMAIN S : /\ S[i].connection_id \in conn_ids
                                                /\ S[i].status = "completed"})
         IN  {completed[m] : m \in {n \in 1..Len(completed) :
                 \A j \in 1..(n - 1) :
                     S[completed[j]].connection_id # S[completed[n]].connection_id}}

\* order_by(distance); rows at the same distance in the order of their ids
RECURSIVE OrderByDistance(_, _)
OrderByDistance(dist, ids) ==
    IF ids = {} THEN <<>>
    ELSE LET first == CHOOSE a \in ids : \A b \in ids \ {a} :
                          dist[a] < dist[b] \/ (dist[a] = dist[b] /\ a < b)
         IN  <<first>> \o OrderByDistance(dist, ids \ {first})

\* db.query(Embedding, distance).order_by(distance).limit(limit).all()
NearestRows(dist, limit) == Take(OrderByDistance(dist, DOMAIN dist), limit)

\* the threshold as it would be if it let every distance pass
WithinMinScore_Always(d) == TRUE

\* dist is not None and dist <= settings.rag_min_score
WithinMinScore(d) == d <= rag_min_score

\* app/services/rag.py: the rows within the threshold, then those in scope
search_embeddings(rows, dist, k, scope) ==
    LET limit == IF HasIds(scope) THEN k * 5 ELSE k
        results == NearestRows(dist, limit)
        filtered == SelectSeq(results, LAMBDA i : WithinMinScore(dist[i]))
        in_scope(i) ==
            IF rows[i].item_type \in {"table", "column"} /\ scope.connection_ids # {}
            THEN rows[i].meta.connection_id \in scope.connection_ids
            ELSE /\ rows[i].item_type = "api_route"
                 /\ scope.api_route_ids # {}
                 /\ rows[i].item_id \in scope.api_route_ids
    IN  Take(IF HasIds(scope) THEN SelectSeq(filtered, in_scope) ELSE filtered, k)

\* app/application/services/rag.py: the rows in scope (of the latest
\* completed scans, when there are any), then those within the threshold, and
\* the nearest rows in scope when none is within it.  The meta of a row
\* written by reindex_embeddings holds the key connection_id, so that
\* {**fallback_meta, **meta} is that meta.
application_search_embeddings(S, rows, dist, k, scope) ==
    LET limit == IF HasIds(scope) THEN k * 20 ELSE k
        results == NearestRows(dist, limit)
        filtered == SelectSeq(results, LAMBDA i : WithinMinScore(dist[i]))
        latest_scan_ids == _latest_scan_ids(S, scope.connection_ids)
        in_scope(i) ==
            IF rows[i].item_type \in {"table", "column"} /\ scope.connection_ids # {}
            THEN /\ rows[i].meta.connection_id \in scope.connection_ids
                 /\ latest_scan_ids = {} \/ rows[i].meta.scan_id \in latest_scan_ids
            ELSE /\ rows[i].item_type = "api_route"
                 /\ scope.api_route_ids # {}
                 /\ rows[i].item_id \in scope.api_route_ids
        scoped_candidates == SelectSeq(results, in_scope)
        scoped == SelectSeq(scoped_candidates, LAMBDA i : WithinMinScore(dist[i]))
    IN  Take(IF HasIds(scope)
             THEN (IF scoped = <<>> /\ scoped_candidates # <<>>
                   THEN Take(scoped_candidates, k) ELSE scoped)
             ELSE filtered, k)

\* the scans of the store's rows: two completed scans of connection 1, and a
\* scan of connection 2 that is completed or still running
SearchInit ==
    /\ q_pc = "ready"
    /\ q_dist \in [1..Len(StoredEmbeddings) -> Distances]
    /\ q_scope \in SearchScopes
    /\ q_out = <<>>
    /\ \E status \in {"completed", "running"} :
          scans = <<ScanRow(1, "completed", TRUE, TRUE, None),
                    ScanRow(1, "completed", TRUE, TRUE, None),
                    ScanRow(2, status, TRUE, status = "completed", None)>>
    /\ catalog = <<<<AssetsTable>>, <<AssetsTable>>, <<OrdersTable>>>>
    /\ FallbackIdle
    /\ ReindexIdle
    /\ ThreadsIdle
    /\ RateIdle
    /\ ScannerIdle
    /\ OrchsIdle
    /\ openai_api_key = "sk-key"
    /\ db_dialect = "postgres"
    /\ user_question = <<>>
    /\ connection_ids = <<>>
    /\ pc = "idle"
    /\ OrchIdle
    /\ ENGINE_CACHE = {}
    /\ ENGINE_CACHE_ORDER = <<>>
    /\ ScansIdle
    /\ CacheIdle
    /\ v_sql = <<>>
    /\ v_n = 0
    /\ v_pc = "idle"
    /\ v_out = NoVerdict

SearchUnchanged ==
    UNCHANGED <<q_dist, q_scope, fvars, evars, vvars, svars, cvars, tvars, rvars, bvars, orchvars, ovars>>

\* search_embeddings(db, question, top_k, scope) of app/services/rag.py
SearchServices ==
    /\ q_pc = "ready"
    /\ q_out' = search_embeddings(StoredEmbeddings, q_dist, top_k, q_scope)
    /\ q_pc' = "services"
    /\ SearchUnchanged

\* search_embeddings(db, question, top_k, scope) of app/application/services/rag.py
SearchApplication ==
    /\ q_pc = "ready"
    /\ q_out' = application_search_embeddings(scans, StoredEmbeddings, q_dist, top_k, q_scope)
    /\ q_pc' = "application"
    /\ SearchUnchanged

SearchNext == SearchServices \/ SearchApplication

SpecSearch == SearchInit /\ [][SearchNext]_vars

Searched == q_pc \in {"services", "application"}

\* the completed scan of each connection of the scope that finished last
C33_LatestCompleted ==
    {i \in DOMAIN scans :
        /\ scans[i].status = "completed"
        /\ scans[i].connection_id \in q_scope.connection_ids
        /\ \A j \in DOMAIN scans :
              (scans[j].status = "completed"
               /\ scans[j].connection_id = scans[i].connection_id) => j <= i}

C33_ItemInScope(i) ==
    IF StoredEmbeddings[i].item_type = "api_route"
    THEN StoredEmbeddings[i].item_id \in q_scope.api_route_ids
    ELSE /\ StoredEmbeddings[i].meta.connection_id \in q_scope.connection_ids
         /\ C33_LatestCompleted # {} =>
               StoredEmbeddings[i].meta.scan_id \in C33_LatestCompleted

\* C33: with connection_ids or api_route_ids in the scope, search_embeddings
\* returns at most top_k items, and each is in scope: a table or column of a
\* connection of the scope (and of its latest completed scan, when the
\* connections of the scope have one), an API route of the scope.
C33_ScopedResults ==
    (Searched /\ HasIds(q_scope)) =>
        /\ Len(q_out) <= top_k
        /\ \A n \in 1..Len(q_out) : C33_ItemInScope(q_out[n])

C34_ScopeNarrowsToEmpty ==
    /\ HasIds(q_scope)
    /\ \A i \in 1..Len(StoredEmbeddings) : C33_ItemInScope(i) => q_dist[i] > rag_min_score

MaxReindex == 3

\* the catalog: a table and a column of scan 1, a table of scan 2, an API
\* route (scan_id 0: it belongs to no scan)
CatalogEntities ==
    <<[type |-> "table", id |-> 1, scan_id |-> 1], [type |-> "column", id |-> 1, scan_id |-> 1],
      [type |-> "table", id |-> 2, scan_id |-> 2], [type |-> "api_route", id |-> 1, scan_id |-> 0]>>

\* the canonical text of an entity changes when its description, annotations
\* or columns are edited: the texts of an entity are told apart by a version
TextVersions == 1..2

\* build_table_document, build_column_document, build_api_document: the
\* content (type and id) and the text of entity i
Document(docs, i) ==
    [type |-> CatalogEntities[i].type, id |-> CatalogEntities[i].id,
     text |-> <<CatalogEntities[i].type, CatalogEntities[i].id, docs[i]>>]

\* hashlib.sha256(value.encode("utf-8")).hexdigest(): texts that differ have
\* hashes that differ
_hash_content(value) == <<"sha256", value>>

\* the entities of the documents list (lines 114-131): tables and columns, of
\* the scan when scan_id is given (0: None), and the API routes if asked for
Documents(scan_id, include_api_routes) ==
    {i \in 1..Len(CatalogEntities) :
        IF CatalogEntities[i].type = "api_route" THEN include_api_routes
        ELSE scan_id = 0 \/ CatalogEntities[i].scan_id = scan_id}

\* the rows of an (item_type, item_id)
RowsOf(store, i) ==
    {row \in store : /\ row.item_type = CatalogEntities[i].type
                     /\ row.item_id = CatalogEntities[i].id}

\* the comparison as it would be if a stored row of any hash counted as
\* unchanged
Unchanged_AnyHash(store, docs, i) == RowsOf(store, i) # {}

\* key in existing_map and existing_map[key].content_hash == content_hash
Unchanged(store, docs, i) ==
    \E row \in RowsOf(store, i) : row.content_hash = _hash_content(Document(docs, i).text)

\* reindex_embeddings from the documents on (lines 133-173 of
\* app/services/rag.py, 142-185 of app/application/services/rag.py): the
\* store after the call, what it returned (-1: it raised) and whether the
\* embedding service was called.  When embed_texts raises, the session ends
\* without a commit and the DELETE is rolled back.
IndexDocuments(store, docs, documents, embed_ok) ==
    LET to_index == {i \in documents : ~Unchanged(store, docs, i)}
        deleted == store \ UNION {RowsOf(store, i) : i \in to_index}
        added == {[item_type |-> Document(docs, i).type, item_id |-> Document(docs, i).id,
                   content_hash |-> _hash_content(Document(docs, i).text)] : i \in to_index}
    IN  IF documents = {} \/ to_index = {}
        THEN [store |-> store, returned |-> 0, embedded |-> FALSE]
        ELSE IF ~embed_ok
        THEN [store |-> store, returned |-> -1, embedded |-> TRUE]
        ELSE [store |-> deleted \cup added, returned |-> Cardinality(to_index),
              embedded |-> TRUE]

\* app/application/services/rag.py
application_reindex_embeddings(store, docs, scan_id, include_api_routes, embed_ok) ==
    IndexDocuments(store, docs, Documents(scan_id, include_api_routes), embed_ok)

\* app/services/rag.py: build_table_document (lines 30-36) calls
\* build_suggested_selects of app/services/selects.py with the keywords
\* table_annotations and sample_rows, which that function (line 6) does not
\* take: the first table of the documents raises TypeError
reindex_embeddings(store, docs, scan_id, include_api_routes, embed_ok) ==
    IF \E i \in Documents(scan_id, include_api_routes) : CatalogEntities[i].type = "table"
    THEN [store |-> store, returned |-> -1, embedded |-> FALSE]
    ELSE IndexDocuments(store, docs, Documents(scan_id, include_api_routes), embed_ok)

\* no call of reindex_embeddings since the catalog last changed
NoRun ==
    [ran |-> FALSE, scan_id |-> 0, include_api_routes |-> FALSE, returned |-> 0,
     embed_ok |-> TRUE]

ReindexInit ==
    /\ e_docs \in [1..Len(CatalogEntities) -> TextVersions]
    /\ e_store = {}
    /\ e_calls = 0
    /\ e_runs = 0
    /\ e_last = NoRun
    /\ FallbackIdle
    /\ SearchIdle
    /\ ThreadsIdle
    /\ RateIdle
    /\ ScannerIdle
    /\ OrchsIdle
    /\ openai_api_key = "sk-key"
    /\ db_dialect = "postgres"
    /\ user_question = <<>>
    /\ connection_ids = <<>>
    /\ scans = <<>>
    /\ catalog = <<>>
    /\ pc = "idle"
    /\ OrchIdle
    /\ ENGINE_CACHE = {}
    /\ ENGINE_CACHE_ORDER = <<>>
    /\ ScansIdle
    /\ CacheIdle
    /\ v_sql = <<>>
    /\ v_n = 0
    /\ v_pc = "idle"
    /\ v_out = NoVerdict

ReindexUnchanged ==
    UNCHANGED <<fvars, qvars, vvars, svars, cvars, tvars, rvars, bvars, orchvars, ovars>>

\* the outcome of a call of reindex_embeddings is written down
Reindexed(out, scan_id, include_api_routes, embed_ok) ==
    /\ e_store' = out.store
    /\ e_calls' = IF out.embedded THEN e_calls + 1 ELSE e_calls
    /\ e_runs' = e_runs + 1
    /\ e_last' = [ran |-> TRUE, scan_id |-> scan_id, include_api_routes |-> include_api_routes,
                  returned |-> out.returned, embed_ok |-> embed_ok]
    /\ UNCHANGED e_docs
    /\ ReindexUnchanged

\* POST /rag/index of app/api/rag.py
ReindexServices ==
    /\ e_runs < MaxReindex
    /\ \E scan_id \in 0..2, include_api_routes \in BOOLEAN, embed_ok \in BOOLEAN :
          Reindexed(reindex_embeddings(e_store, e_docs, scan_id, include_api_routes, embed_ok),
                    scan_id, include_api_routes, embed_ok)

\* POST /rag/index of app/presentation/api/rag.py
ReindexApplication ==
    /\ e_runs < MaxReindex
    /\ \E scan_id \in 0..2, include_api_routes \in BOOLEAN, embed_ok \in BOOLEAN :
          Reindexed(application_reindex_embeddings(e_store, e_docs, scan_id,
                                                   include_api_routes, embed_ok),
                    scan_id, include_api_routes, embed_ok)

\* the description of a catalog entity is edited
CatalogChange ==
    /\ e_runs < MaxReindex
    /\ \E i \in 1..Len(CatalogEntities), v \in TextVersions :
          /\ v # e_docs[i]
          /\ e_docs' = [e_docs EXCEPT ![i] = v]
    /\ e_last' = NoRun
    /\ UNCHANGED <<e_store, e_calls, e_runs>>
    /\ ReindexUnchanged

ReindexNext == ReindexServices \/ ReindexApplication \/ CatalogChange

SpecReindex == ReindexInit /\ [][ReindexNext]_vars

\* the entities of the call that just ended whose text has another hash than
\* the one stored for them, or none stored
C35_Changed ==
    {i \in Documents(e_last'.scan_id, e_last'.include_api_routes) :
        \A row \in e_store :
            (row.item_type = CatalogEntities[i].type /\ row.item_id = CatalogEntities[i].id)
                => row.content_hash # _hash_content(Document(e_docs, i).text)}

C35_KeyOf(row) ==
    CHOOSE i \in 1..Len(CatalogEntities) :
        CatalogEntities[i].type = row.item_type /\ CatalogEntities[i].id = row.item_id

\* C35: a call of reindex_embeddings whose embedding service answers returns
\* the number of entities whose text changed, calls the service only if there
\* are any, replaces their rows by one row with the new hash and leaves the
\* other rows alone; a second call with the same arguments and no catalog
\* change in between returns 0, calls no embedding service and leaves the
\* store as it is.
C35_ReindexOnlyChanged ==
    [][(e_runs' = e_runs + 1 /\ e_last'.embed_ok) =>
          /\ e_last'.returned = Cardinality(C35_Changed)
          /\ (e_calls' # e_calls) = (C35_Changed # {})
          /\ \A row \in e_store : C35_KeyOf(row) \notin C35_Changed => row \in e_store'
          /\ \A row \in e_store' :
                \/ row \in e_store /\ C35_KeyOf(row) \notin C35_Changed
                \/ /\ C35_KeyOf(row) \in C35_Changed
                   /\ row.content_hash = _hash_content(Document(e_docs, C35_KeyOf(row)).text)
          /\ \A i \in C35_Changed : RowsOf(e_store', i) # {}
          /\ (/\ e_last.ran
              /\ e_last.returned >= 0
              /\ e_last.scan_id = e_last'.scan_id
              /\ e_last.include_api_routes = e_last'.include_api_routes) =>
                 /\ e_last'.returned = 0
                 /\ e_calls' = e_calls
                 /\ e_store' = e_store]_vars

(***************************************************************************)
(* Claims about the validator (checked under SpecValidator)                *)
(***************************************************************************)
Validated == v_pc = "validated"

\* the statement starts with the keyword WITH
StartsWithWITH(sql) == sql # <<>> /\ Lower(sql[1]) = "with"

\* the FROM/JOIN names of the input minus the CTE names it declares
Referenced(sql) ==
    _extract_table_names(RStripSemicolons(sql)) \ _extract_cte_names(RStripSemicolons(sql))

\* C2 (as claimed): a SQL whose FROM/JOIN names minus its CTE names are not
\* all in the allowlist is rejected, unless the statement starts with WITH
\* and every missing name is unqualified; so an accepted statement that does
\* not start with WITH references only allowlisted tables.
C2_AllowlistEnforced ==
    Validated =>
        LET missing == Referenced(v_sql) \ TestAllowed
        IN  /\ (/\ missing # {}
                /\ ~(StartsWithWITH(v_sql) /\ \A name \in missing : ~IsQualified(name)))
               => ~v_out.ok
            /\ (v_out.ok /\ ~StartsWithWITH(v_sql)) => Referenced(v_sql) \subseteq TestAllowed

\* the words C3 lists
C3_Words ==
    {"insert", "update", "delete", "upsert", "merge", "drop", "alter", "create",
     "grant", "revoke", "truncate", "copy", "execute", "call"}

C3_HasForbiddenWord(sql) == \E i \in 1..Len(sql) : WordsOf(sql[i]) \cap C3_Words # {}

\* the text minus one trailing semicolon
C3_StripOnce(sql) ==
    IF sql # <<>> /\ sql[Len(sql)] \in Semicolons THEN SubSeq(sql, 1, Len(sql) - 1) ELSE sql

\* C3 (as claimed): an input that holds a forbidden keyword as a whole word,
\* in any letter case, is rejected, and so is an input that still holds a ';'
\* after one trailing semicolon is stripped.
C3_Original ==
    Validated =>
        ((\/ C3_HasForbiddenWord(v_sql)
          \/ \E i \in 1..Len(C3_StripOnce(v_sql)) : C3_StripOnce(v_sql)[i] \in Semicolons)
         => ~v_out.ok)

\* a ';' is followed by something else than a ';' written directly after it:
\* a ';' is left when every trailing ';' is stripped
C3_SemicolonInside(sql) ==
    \E i \in 1..Len(sql) : \E j \in (i + 1)..Len(sql) :
        sql[i] \in Semicolons /\ sql[j] # ";"

\* C3 (amended): an input that holds a forbidden keyword as a whole word, in
\* any letter case, is rejected, and so is an input that still holds a ';'
\* after all its trailing semicolons are stripped.
C3_ForbiddenRejected ==
    Validated => ((C3_HasForbiddenWord(v_sql) \/ C3_SemicolonInside(v_sql)) => ~v_out.ok)

\* C3 witness: a SELECT that holds a forbidden keyword was rejected for it
C3_Witness ==
    /\ Validated
    /\ C3_HasForbiddenWord(v_sql)
    /\ ~v_out.ok
    /\ v_out.error = "Comandos de escrita ou DDL não são permitidos."

\* C5 (as claimed): in an accepted SQL a numeric LIMIT n with n <= cap is
\* kept, every other LIMIT (greater than cap, ALL, bind parameter) is
\* rewritten to LIMIT cap, and LIMIT cap is appended when there is no LIMIT.
C5_LimitNormalised ==
    (Validated /\ v_out.ok) =>
        LET cleaned == RStripSemicolons(v_sql)
            limits == {i \in 1..(Len(cleaned) - 1) :
                        /\ Lower(cleaned[i]) = "limit"
                        /\ \/ cleaned[i + 1] \in Numerals
                           \/ cleaned[i + 1] \in Binds
                           \/ Lower(cleaned[i + 1]) = "all"}
        IN  IF limits = {}
            THEN v_out.sql = cleaned \o <<"LIMIT", Str(sql_max_rows)>>
            ELSE /\ Len(v_out.sql) = Len(cleaned)
                 /\ \A i \in limits :
                        IF cleaned[i + 1] \in Numerals /\ NumVal[cleaned[i + 1]] <= sql_max_rows
                        THEN v_out.sql[i + 1] = cleaned[i + 1]
                        ELSE v_out.sql[i] = "LIMIT" /\ v_out.sql[i + 1] = Str(sql_max_rows)

\* the LIMIT clauses of the rewritten SQL, by the lexeme after LIMIT
C32_Limits == {i \in 1..(Len(v_out.sql) - 1) : Lower(v_out.sql[i]) = "limit"}

\* C32: in the SQL that _validate_sql returns for an accepted statement there
\* is a LIMIT, and every LIMIT is a number that is not greater than the row
\* cap, however many LIMIT clauses the statement holds.
C32_RowCapTextual ==
    (Validated /\ v_out.ok) =>
        /\ C32_Limits # {}
        /\ \A i \in C32_Limits :
              /\ v_out.sql[i + 1] \in Numerals
              /\ NumVal[v_out.sql[i + 1]] <= sql_max_rows

\* the rules that reject on a pattern, each with the reason it returns
C25_Reason ==
    [multiple |-> "Múltiplas statements não são permitidas.",
     prefix |-> "Apenas SELECT/CTE são permitidos.",
     keywords |-> "Comandos de escrita ou DDL não são permitidos.",
     into |-> "SELECT INTO não é permitido.",
     for_update |-> "SELECT com FOR UPDATE/SHARE não é permitido.",
     functions |-> "Funções perigosas não são permitidas."]

\* whether the validated statement violates a rule
C25_Violates(rule) ==
    LET cleaned == RStripSemicolons(v_sql)
        lowered == LowerSeq(cleaned)
    IN  CASE rule = "multiple" -> \E i \in 1..Len(cleaned) : cleaned[i] \in Semicolons
          [] rule = "prefix" ->
                ~(lowered # <<>> /\ lowered[1] \in SelectPrefixed \cup WithPrefixed)
          [] rule = "keywords" -> HasWord(lowered, FORBIDDEN_KEYWORDS)
          [] rule = "into" -> SELECT_INTO_PATTERN(lowered)
          [] rule = "for_update" -> FOR_UPDATE_PATTERN(lowered)
          [] rule = "functions" -> HasWord(lowered, FORBIDDEN_FUNCTIONS)

\* the order of the specification and the order of the code
C25_ListedOrder == <<"multiple", "prefix", "keywords", "into", "for_update", "functions">>

C25_CodeOrder == <<"multiple", "prefix", "into", "for_update", "keywords", "functions">>

\* the verdict is that of the first rule of the order that the statement
\* violates; a statement that violates none of them is tested against the
\* allowlist and, when it passes, given its LIMIT
C25_FirstOf(order) ==
    LET violated == {k \in DOMAIN order : C25_Violates(order[k])}
    IN  IF violated # {}
        THEN /\ ~v_out.ok
             /\ v_out.error = C25_Reason[order[Min(violated)]]
        ELSE /\ v_out.error \in {"Tabelas fora do catálogo permitido", None}
             /\ v_out.ok <=> v_out.error = None
             /\ v_out.ok => v_out.sql = _ensure_limit(RStripSemicolons(v_sql), sql_max_rows)

\* C25 (as claimed): the rules are applied in the order multiple statements,
\* SELECT/WITH prefix, forbidden keywords, SELECT INTO, FOR UPDATE/SHARE,
\* sensitive functions, allowlist, LIMIT, and the reason returned is that of
\* the first rule of that order that the statement violates.
C25_Original == Validated => C25_FirstOf(C25_ListedOrder)

\* C25 (amended): the same with SELECT INTO and FOR UPDATE/SHARE tested before
\* the forbidden keywords.
C25_RuleOrder == Validated => C25_FirstOf(C25_CodeOrder)

\* C25 witness: a statement that ends in FOR UPDATE, and so holds the forbidden
\* keyword "update" too, is rejected with the reason of FOR UPDATE/SHARE
C25_Witness ==
    /\ Validated
    /\ ~C25_Violates("multiple") /\ ~C25_Violates("prefix")
    /\ C25_Violates("for_update") /\ C25_Violates("keywords")
    /\ v_out.error = C25_Reason.for_update

(***************************************************************************)
(* Claims about the scan functions (checked under SpecScans)               *)
(***************************************************************************)
\* a call of reconcile_scan_status has just returned
Reconciled == s_pc \in {"reconciled", "reconciled_again"}

\* the columns of a scan row
Columns(row) == <<row.connection_id, row.status, row.finished_at, row.error_message>>

\* C16: reconcile_scan_status changes exactly the running scans of the given
\* connections that are older than stale_minutes: with a catalog row such a
\* scan becomes completed with finished_at set and no error_message, with
\* none it becomes failed with the fixed message; every other scan is left
\* as it was, and no scan becomes completed without catalog rows.
C16_ReconcileByCatalog ==
    Reconciled =>
        \A i \in DOMAIN scans :
            LET before == s_before[i]
                after == scans[i]
            IN  /\ IF /\ before.connection_id \in Range(connection_ids)
                      /\ before.status = "running"
                      /\ before.stale
                   THEN IF Len(catalog[i]) > 0
                        THEN /\ after.status = "completed"
                             /\ after.finished_at
                             /\ after.error_message = None
                        ELSE /\ after.status = "failed"
                             /\ after.error_message = "Scan interrompido/sem catálogo gerado"
                   ELSE after = before
                /\ (after.status = "completed" /\ before.status # "completed") =>
                      Len(catalog[i]) > 0

\* C16 witness: one call promoted a scan, failed another and left a running
\* scan alone
C16_Witness ==
    /\ Reconciled
    /\ \E i \in DOMAIN scans : s_before[i].status = "running" /\ scans[i].status = "completed"
    /\ \E i \in DOMAIN scans : s_before[i].status = "running" /\ scans[i].status = "failed"
    /\ \E i \in DOMAIN scans : s_before[i].status = "running" /\ scans[i] = s_before[i]

\* the latest call of reconcile_scan_status left every scan row as it was
C17_RowsUnchanged ==
    \A i \in DOMAIN scans : Columns(scans[i]) = Columns(s_before[i])

\* C17 (as claimed): a second call of reconcile_scan_status, with no change
\* to scans or catalog rows since the first, leaves every scan row unchanged.
C17_Original == (Reconciled /\ s_runs >= 2) => C17_RowsUnchanged

\* C17 (amended): a second call of reconcile_scan_status, with no change to
\* scans or catalog rows since the first and no running scan grown older
\* than stale_minutes in between, leaves every scan row unchanged.
C17_Idempotent == s_pc = "reconciled_again" => C17_RowsUnchanged

\* C17 witness: a second call right after a call that failed a scan
C17_Witness ==
    /\ s_pc = "reconciled_again"
    /\ \E i \in DOMAIN scans :
          /\ scans[i].status = "failed"
          /\ scans[i].error_message = "Scan interrompido/sem catálogo gerado"
    /\ \E i \in DOMAIN scans : scans[i].status = "running"

\* the positions of the list that hold a scan of connection c in set ok
C18_Positions(c, ok) ==
    {k \in DOMAIN s_list : scans[s_list[k]].connection_id = c /\ s_list[k] \in ok}

C18_First(positions) == s_list[CHOOSE k \in positions : \A m \in positions : k <= m]

C18_Completed == {i \in DOMAIN scans : scans[i].status = "completed"}

C18_RunningWithCatalog ==
    {i \in DOMAIN scans : scans[i].status = "running" /\ Len(catalog[i]) > 0}

\* C18: per connection _select_latest_scan_ids picks the first completed scan
\* of the list; with no completed scan, the first running scan that has a
\* catalog row; with neither, nothing; the running set holds exactly the
\* running scans it picked.
C18_SelectLatest ==
    s_pc = "selected" =>
        LET latest == s_selected.latest_scan_ids
            completed(c) == C18_Positions(c, C18_Completed)
            running(c) == C18_Positions(c, C18_RunningWithCatalog)
        IN  /\ \A c \in Connections :
                  IF completed(c) # {}
                  THEN c \in DOMAIN latest /\ latest[c] = C18_First(completed(c))
                  ELSE IF running(c) # {}
                  THEN c \in DOMAIN latest /\ latest[c] = C18_First(running(c))
                  ELSE c \notin DOMAIN latest
            /\ DOMAIN latest \subseteq Connections
            /\ s_selected.running_scan_ids =
                  {C18_First(running(c)) :
                      c \in {d \in Connections : completed(d) = {} /\ running(d) # {}}}

\* C18 witness: a completed scan was picked although a running scan with
\* catalog rows comes first in the list, and a running scan was picked for
\* the other connection
C18_Witness ==
    /\ s_pc = "selected"
    /\ s_selected.running_scan_ids # {}
    /\ \E c \in DOMAIN s_selected.latest_scan_ids :
          /\ scans[s_selected.latest_scan_ids[c]].status = "completed"
          /\ \E k \in C18_Positions(c, C18_RunningWithCatalog) :
                s_list[k] # s_selected.latest_scan_ids[c]
                /\ \A m \in C18_Positions(c, C18_Completed) : k < m

\* the running scans that _schema_context selects among the rows it found: a
\* scan of a connection of the scope that has catalog rows, when the
\* connection has no completed scan and no running scan with catalog rows
\* that the query lists earlier
C28_Selected ==
    {i \in DOMAIN s_before :
        /\ s_before[i].connection_id \in Range(connection_ids)
        /\ s_before[i].status = "running"
        /\ catalog[i] # <<>>
        /\ \A j \in DOMAIN s_before \ {i} :
              s_before[j].connection_id = s_before[i].connection_id =>
                 /\ s_before[j].status # "completed"
                 /\ (s_before[j].status = "running" /\ catalog[j] # <<>>)
                       => ScanBefore(s_before, i, j)}

\* the tables of a scan are in the snapshot of its connection and their names,
\* bare and qualified, in its allowlist
C28_Contributes(i) ==
    LET c == s_before[i].connection_id
    IN  /\ c \in DOMAIN allowed_tables_by_connection
        /\ \A t \in Range(catalog[i]) :
              /\ {t.name, Qualify(t.schema, t.name)} \subseteq allowed_tables_by_connection[c]
              /\ \E k \in DOMAIN schema_context.connections :
                    /\ schema_context.connections[k].connection_id = c
                    /\ \E m \in DOMAIN schema_context.connections[k].tables :
                          /\ schema_context.connections[k].tables[m].schema = t.schema
                          /\ schema_context.connections[k].tables[m].name = t.name

\* C28: _schema_context leaves every running scan it selected completed, with
\* finished_at set and error_message cleared, and the tables of such a scan are
\* in the snapshot and in the allowlist it returns; every other scan row is as
\* it was.
C28_PromoteSelected ==
    s_pc = "context" =>
        \A i \in DOMAIN scans :
            IF i \in C28_Selected
            THEN /\ scans[i].status = "completed"
                 /\ scans[i].finished_at
                 /\ scans[i].error_message = None
                 /\ scans[i].connection_id = s_before[i].connection_id
                 /\ C28_Contributes(i)
            ELSE scans[i] = s_before[i]

\* C28 witness: a selected running scan was promoted and its tables are
\* allowed, next to a running scan of the scope that was not selected
C28_Witness ==
    /\ s_pc = "context"
    /\ \E i \in C28_Selected :
          /\ scans[i].status = "completed"
          /\ "assets" \in allowed_tables_by_connection[s_before[i].connection_id]
    /\ \E j \in DOMAIN scans \ C28_Selected :
          /\ s_before[j].status = "running"
          /\ s_before[j].connection_id \in Range(connection_ids)
          /\ scans[j].status = "running"

(***************************************************************************)
(* Claims about the engine cache (checked under SpecCache)                 *)
(***************************************************************************)
\* C19 (as claimed): after any calls of _build_engine the engine cache holds
\* at most engine_cache_size entries.
C19_CacheBounded ==
    /\ Cardinality(ENGINE_CACHE) <= engine_cache_size
    /\ Len(ENGINE_CACHE_ORDER) <= engine_cache_size

\* the call that stored the engine of a cached key
C20_InsertedAt(key) ==
    CHOOSE i \in DOMAIN c_log :
        /\ c_log[i].key = key /\ c_log[i].created
        /\ \A j \in DOMAIN c_log : (c_log[j].key = key /\ c_log[j].created) => j <= i

\* the cached key that was stored earliest
C20_Oldest ==
    CHOOSE key \in ENGINE_CACHE :
        \A other \in ENGINE_CACHE : C20_InsertedAt(key) <= C20_InsertedAt(other)

\* C20 (as claimed): a call with a cached key leaves the cache and its order
\* as they are and creates no engine; a call with a new key stores it, and
\* when that makes the size exceed engine_cache_size the key stored earliest
\* is evicted.
C20_FifoEviction ==
    [][Len(c_log') = Len(c_log) + 1 =>
          LET call == c_log'[Len(c_log')]
          IN  IF call.key \in ENGINE_CACHE
              THEN /\ ~call.created
                   /\ ENGINE_CACHE' = ENGINE_CACHE
                   /\ ENGINE_CACHE_ORDER' = ENGINE_CACHE_ORDER
              ELSE /\ call.created
                   /\ ENGINE_CACHE' =
                         IF Cardinality(ENGINE_CACHE) + 1 > engine_cache_size
                         THEN (ENGINE_CACHE \cup {call.key}) \ {C20_Oldest}
                         ELSE ENGINE_CACHE \cup {call.key}]_vars

\* the latest call (hit or insert) made with a key
C21_LastAcquire(key) ==
    CHOOSE i \in DOMAIN c_log :
        c_log[i].key = key /\ \A j \in DOMAIN c_log : c_log[j].key = key => j <= i

\* the cached key whose latest call is the oldest
C21_LeastRecent ==
    CHOOSE key \in ENGINE_CACHE :
        \A other \in ENGINE_CACHE : C21_LastAcquire(key) <= C21_LastAcquire(other)

\* C21 (as claimed): when a call stores a new key and the size exceeds
\* engine_cache_size, the key evicted is the one whose latest call (hit or
\* insert) is the oldest, and no other key is evicted.
C21_LruEviction ==
    [][(/\ Len(c_log') = Len(c_log) + 1
        /\ c_log'[Len(c_log')].key \notin ENGINE_CACHE
        /\ Cardinality(ENGINE_CACHE) + 1 > engine_cache_size)
          => ENGINE_CACHE \ ENGINE_CACHE' = {C21_LeastRecent}]_vars

(***************************************************************************)
(* Claims about concurrent calls of _build_engine (checked under           *)
(* SpecThreads)                                                            *)
(***************************************************************************)
\* no thread is between storing its engine and appending its key
C22_MapUpdatesDone == \A t \in Threads : t_pc[t] # "append"

\* C22 (as claimed): whenever no call is in the middle of its map updates,
\* ENGINE_CACHE_ORDER holds each cached key exactly once and exactly the keys
\* of ENGINE_CACHE; two concurrent misses on one key leave one order entry.
C22_CacheConsistent ==
    C22_MapUpdatesDone =>
        /\ Range(ENGINE_CACHE_ORDER) = ENGINE_CACHE
        /\ \A i, j \in DOMAIN ENGINE_CACHE_ORDER :
              ENGINE_CACHE_ORDER[i] = ENGINE_CACHE_ORDER[j] => i = j

(***************************************************************************)
(* Claims about the rate limiter (checked under SpecRate)                  *)
(***************************************************************************)
\* the calls of a key that were admitted
C24_Admitted(key) == {i \in DOMAIN rl_log : rl_log[i].key = key /\ rl_log[i].allowed}

\* C24 (as claimed): of the calls of one key, at most limit are admitted within
\* any window of window_seconds, whatever calls of other keys come between.
C24_WindowLimit ==
    \A key \in RateKeys :
        \A i \in C24_Admitted(key) :
            Cardinality({j \in C24_Admitted(key) :
                            j >= i /\ rl_log[j].at - rl_log[i].at < window_seconds})
                <= rate_limit_per_minute

(***************************************************************************)
(* Claims about the lifecycle of scans (checked under SpecLife and         *)
(* SpecRace)                                                               *)
(***************************************************************************)
\* C29 (as claimed): a scan that is completed or failed keeps its status, and
\* a scan that is completed keeps its catalog rows, whatever the scanner, the
\* reconciler and the promotion of _schema_context do in any order.
C29_StatusFinal ==
    [][\A i \in DOMAIN scans :
          /\ scans[i].status \in {"completed", "failed"} =>
                scans'[i].status = scans[i].status
          /\ (scans[i].status = "completed" /\ catalog[i] # <<>>) =>
                catalog'[i] # <<>>]_vars

\* both orchestrations are past their schema context
C30_Done == \A o \in Orchs : o_pc[o] = "done"

\* no running scan grew older than stale_minutes since they began
C30_NoAging == \A i \in DOMAIN scans : scans[i].stale = o_start[i].stale

C30_InScope(i) == \E o \in Orchs : o_start[i].connection_id \in Range(o_ids[o])

\* a running scan older than stale_minutes, which the reconciler settles
C30_Stale(i) == C30_InScope(i) /\ o_start[i].status = "running" /\ o_start[i].stale

\* a younger running scan with catalog rows, which _schema_context promotes
\* when its connection has no completed scan and it is the latest such scan
C30_Fresh(i) ==
    /\ C30_InScope(i)
    /\ o_start[i].status = "running"
    /\ ~o_start[i].stale
    /\ catalog[i] # <<>>

C30_Latest(i) ==
    /\ C30_Fresh(i)
    /\ \A j \in DOMAIN o_start \ {i} :
          o_start[j].connection_id = o_start[i].connection_id =>
             /\ o_start[j].status # "completed"
             /\ ~(C30_Stale(j) /\ catalog[j] # <<>>)
             /\ C30_Fresh(j) => i > j

\* the status that the scan rows and catalog rows at the beginning determine
C30_Final(i) ==
    IF C30_Stale(i) THEN (IF catalog[i] # <<>> THEN "completed" ELSE "failed")
    ELSE IF C30_Latest(i) THEN "completed"
    ELSE o_start[i].status

\* C30 (as claimed): when two orchestrations on overlapping scopes are past
\* reconciliation and promotion, the status of every scan is the one the rows
\* at the beginning determine (for a scan they changed: completed with
\* catalog rows, failed without), whatever the order of their steps.
C30_Original == C30_Done => \A i \in DOMAIN scans : scans[i].status = C30_Final(i)

\* C30 (amended): the same when no running scan grew older than stale_minutes
\* while the orchestrations ran.
C30_OrderIndependent ==
    (C30_Done /\ C30_NoAging) =>
        \A i \in DOMAIN scans :
            /\ scans[i].status = C30_Final(i)
            /\ scans[i].status # o_start[i].status =>
                  scans[i].status = IF catalog[i] # <<>> THEN "completed" ELSE "failed"

\* C30 witness: both orchestrations read the same running scan as the one to
\* promote and both wrote it, and a scan without catalog rows was failed
C30_Witness ==
    /\ C30_Done
    /\ C30_NoAging
    /\ \E i \in o_running[1] \cap o_running[2] : scans[i].status = "completed"
    /\ \E j \in DOMAIN scans : o_start[j].status = "running" /\ scans[j].status = "failed"

(***************************************************************************)
(* Claims about orchestrate_sql_rag (checked under SpecOrch)               *)
(***************************************************************************)
Finished == pc \in {"returned", "raised"}

Sent == last_statement # NoStatement

\* C1: a statement is sent to a target database only when _validate_sql
\* accepted the query against the allowlist of the connection it is sent to,
\* and the text sent is the validator's rewritten SQL.
C1_OnlyValidatedSqlSent ==
    Sent =>
        LET c == last_statement.connection_id
            allowlist ==
                IF c \in DOMAIN allowed_tables_by_connection
                THEN allowed_tables_by_connection[c] ELSE {}
            verdict == _validate_sql(last_statement.raw, allowlist, sql_max_rows)
        IN  verdict.ok /\ last_statement.sql = verdict.sql

\* C1 witness: a rewritten statement was sent to connection 2 while
\* connection 1 is in scope with another allowlist
C1_Witness ==
    /\ Sent
    /\ last_statement.connection_id = 2
    /\ last_statement.sql # last_statement.raw
    /\ 1 \in DOMAIN allowed_tables_by_connection
    /\ allowed_tables_by_connection[1] # allowed_tables_by_connection[2]

\* C4 (as claimed): a statement runs on a member of connection_ids, the
\* query's own connection_id when it has one and connection_ids[0] when it
\* has none; a query that names a connection outside connection_ids is not
\* executed and is recorded as a sql_error.
C4_ConnectionInScope ==
    /\ Sent =>
          /\ last_statement.connection_id \in Range(connection_ids)
          /\ last_statement.requested # <<>> =>
                last_statement.connection_id = last_statement.requested[1]
          /\ last_statement.requested = <<>> =>
                last_statement.connection_id = connection_ids[1]
    /\ (/\ pc = "round_end"
        /\ query.connection_id # <<>>
        /\ query.connection_id[1] \notin Range(connection_ids))
       => (~Sent /\ error_payload.kind = "sql_error")

\* C6: every executed-query record has rows_returned <= sql_max_rows, and
\* truncated exactly when rows_returned = sql_max_rows.
C6_RowsCapped ==
    \A k \in 1..Len(executed_queries) :
        /\ executed_queries[k].rows_returned <= sql_max_rows
        /\ executed_queries[k].truncated <=> (executed_queries[k].rows_returned = sql_max_rows)

\* C6 witness: a truncated record and a record that is not truncated
C6_Witness ==
    /\ \E k \in 1..Len(executed_queries) :
          executed_queries[k].truncated /\ executed_queries[k].rows_returned = sql_max_rows
    /\ \E k \in 1..Len(executed_queries) : ~executed_queries[k].truncated

C7_Bound == sql_max_queries * agent_select_rounds * (planner_retry_limit + 1)

\* C7: one orchestration sends at most sql_max_queries * agent_select_rounds *
\* (planner_retry_limit + 1) statements to target databases, those of
\* discarded rounds and attempts counted.
C7_QueryBound == db_calls <= C7_Bound

\* C7 witness: the bound is reached, and results were discarded on the way
C7_Witness == db_calls = C7_Bound /\ Len(executed_queries) < db_calls

C8_Bound == (planner_retry_limit + 1) * agent_select_rounds

\* C8 (as claimed): at most (planner_retry_limit + 1) * agent_select_rounds
\* requests are sent to the LLM endpoint for the Planner, and one for the
\* Responder.
C8_Original == planner_requests <= C8_Bound /\ responder_requests <= 1

\* C8 (amended): at most (planner_retry_limit + 1) * agent_select_rounds
\* Planner calls and one Responder call, each call sending at most two
\* requests to the LLM endpoint.
C8_LlmCallBound ==
    /\ planner_calls <= C8_Bound
    /\ responder_calls <= 1
    /\ planner_requests <= 2 * planner_calls
    /\ responder_requests <= 2 * responder_calls

\* C8 witness: every Planner call of every attempt was made and retried, and
\* the Responder call was retried
C8_Witness ==
    /\ planner_calls = C8_Bound
    /\ planner_requests = 2 * C8_Bound
    /\ responder_requests = 2

\* C9 (as claimed): no exception leaves orchestrate_sql_rag.
C9_NeverRaises == outcome.kind # "raised"

\* no connection of the scope has a completed scan or a running scan with
\* catalog rows
C10_NoUsableScan ==
    \/ connection_ids = <<>>
    \/ \A i \in DOMAIN scans :
          scans[i].connection_id \in Range(connection_ids) =>
              /\ scans[i].status # "completed"
              /\ ~(scans[i].status = "running" /\ Len(catalog[i]) > 0)

C10_CatalogAbsent ==
    /\ outcome = Returned("Não há catálogo/scan concluído. Execute o scan/reindexação do catálogo.",
                          <<>>, EmptyPayload)
    /\ planner_calls = 0
    /\ responder_calls = 0
    /\ db_calls = 0

\* C10 (as claimed): with connection_ids empty or no usable scan, the
\* orchestration returns the catalog-absent message, no executed queries and
\* an empty tool_payload, and calls no Planner, Responder or target database.
C10_Original == (Finished /\ C10_NoUsableScan) => C10_CatalogAbsent

\* C10 (amended): with connection_ids empty or no usable scan, the
\* orchestration calls no Planner, Responder or target database and yields
\* no executed queries and no tool_payload; when the LLM key is set and
\* db_dialect is postgres it returns the catalog-absent message.
C10_NoCatalogNoCalls ==
    (Finished /\ C10_NoUsableScan) =>
        /\ planner_calls = 0
        /\ responder_calls = 0
        /\ db_calls = 0
        /\ outcome.executed_queries = <<>>
        /\ outcome.tool_payload = EmptyPayload
        /\ (openai_api_key # "" /\ db_dialect = "postgres") => C10_CatalogAbsent

\* C10 witness: a scope with a connection whose scan is not usable got the
\* catalog-absent message
C10_Witness ==
    /\ Finished
    /\ connection_ids # <<>>
    /\ C10_NoUsableScan
    /\ scans[1].status = "failed"
    /\ C10_CatalogAbsent

\* the messages orchestrate_sql_rag returns on a configuration error
C11_ConfigError == openai_api_key = "" \/ db_dialect # "postgres"

C11_FixedMessages ==
    { "OPENAI_API_KEY is required",
      "Dialeto de banco ainda não suportado para execução segura." }

\* C11 (as claimed): with the LLM key missing or db_dialect not postgres,
\* no step of the orchestration writes a scan row, calls the LLM or sends a
\* statement to a target database, and the orchestration ends by returning a
\* fixed message.
C11_ConfigShortCircuit ==
    [][C11_ConfigError =>
          /\ scans' = scans
          /\ planner_requests' = planner_requests
          /\ responder_requests' = responder_requests
          /\ db_calls' = db_calls
          /\ Finished' =>
                /\ outcome'.kind = "returned"
                /\ outcome'.answer \in C11_FixedMessages
                /\ outcome'.executed_queries = <<>>
                /\ outcome'.tool_payload = EmptyPayload]_vars

\* C12 (as claimed): a query that the validator rejected or that failed on
\* its database ends its attempt with that failure as the sql_error; before
\* the last attempt a new attempt follows and the first Planner request of it
\* carries the failure in error_context; in the last attempt the generic
\* execution-failure message is returned.
C12_FailureFedBack ==
    /\ query_failure.attempt = attempt =>
          /\ error_payload = SqlError(query_failure.message)
          /\ pc \in (IF attempt < planner_retry_limit
                     THEN {"round_end", "attempt_end"} ELSE {"round_end", "returned"})
          /\ pc = "returned" =>
                outcome = Returned("Não foi possível executar as consultas solicitadas. Pode ajustar a pergunta?",
                                   <<>>, EmptyPayload)
    /\ (query_failure.attempt = attempt - 1 /\ query_failure.attempt >= 0) =>
          /\ attempt \in AttemptRange
          /\ pc \in {"attempt", "round"} => error_payload = SqlError(query_failure.message)
          /\ (pc = "dispatch" /\ round_index = 0) =>
                planner_error_context = SqlError(query_failure.message)

\* the question matches the list or the extremum intent
QuestionHasIntent == INTENT_LIST_PATTERN(user_question) \/ INTENT_TOP_PATTERN(user_question)

\* every Planner call so far got a response, and all of them were invalid
C13_AllInvalid == planner_calls > 0 /\ planner_invalid = planner_calls

C13_Message == "Não foi possível entender a decisão do planner no momento. Tente novamente."

\* C13: when every Planner response is invalid and the question has no list
\* or extremum intent, every attempt ends after its first Planner response,
\* no query is executed, and the orchestration ends after
\* planner_retry_limit + 1 attempts by returning the planner-failure message.
C13_InvalidPlannerRetries ==
    (C13_AllInvalid /\ ~QuestionHasIntent) =>
        /\ round_index = 0
        /\ planner_calls \in {attempt, attempt + 1}
        /\ db_calls = 0
        /\ executed_queries = <<>>
        /\ Finished =>
              /\ planner_calls = planner_retry_limit + 1
              /\ outcome = Returned(C13_Message, <<>>, EmptyPayload)

\* C13 witness: the planner-failure message after planner_retry_limit + 1
\* invalid responses
C13_Witness ==
    /\ Finished
    /\ C13_AllInvalid
    /\ ~QuestionHasIntent
    /\ planner_invalid = planner_retry_limit + 1
    /\ outcome.answer = C13_Message

\* C14 (as claimed): when the Responder's output is invalid the apology is
\* returned together with the executed_queries of the queries that ran in
\* that attempt.
C14_ExecutedStillReturned ==
    (Finished /\ outcome.answer = "Não foi possível formatar a resposta final. Pode tentar novamente?")
        => outcome.executed_queries = executed_queries

\* what holds in every state: a decision of the fallback planner is in force
\* only for a question with an intent, and when its query succeeded and the
\* Responder answered, the query is returned as validated and executed, with
\* a tool_payload
C15_State ==
    /\ planner_source = "fallback" => QuestionHasIntent
    /\ (/\ Finished
        /\ outcome.kind = "returned"
        /\ outcome.answer = "responder.answer"
        /\ planner_source = "fallback") =>
          LET n == Len(outcome.executed_queries)
              record == outcome.executed_queries[n]
              q == planner_response.queries[1]
              verdict ==
                  _validate_sql(q.sql,
                      AllowedTables(allowed_tables_by_connection, record.connection_id),
                      sql_max_rows)
          IN  /\ n > 0
              /\ record.name = q.name
              /\ verdict.ok
              /\ record.sql = verdict.sql
              /\ outcome.tool_payload # EmptyPayload
              /\ outcome.tool_payload.executed_queries = outcome.executed_queries

\* what holds of every step that receives an invalid Planner response
C15_Step ==
    planner_invalid' = planner_invalid + 1 =>
        IF QuestionHasIntent
        THEN /\ planner_response' =
                   fallback_plan(user_question, schema_context, connection_ids, sql_max_rows)
             /\ planner_source' = "fallback"
             /\ pc' = "dispatch"
        ELSE /\ planner_source' = planner_source
             /\ planner_response' = planner_response
             /\ pc' = "attempt_end"

\* C15: the fallback planner is called only for a question with the list or
\* extremum intent; after an invalid Planner response its decision replaces
\* the Planner's in that round and its query is validated, executed and
\* answered like a Planner query; without an intent the invalid response ends
\* the attempt and the fallback planner is not called.
C15_FallbackOnIntent == []C15_State /\ [][C15_Step]_vars

\* C15 witness: the answer to a listing question whose last Planner response
\* was invalid: the query of the fallback planner was executed
C15_Witness ==
    /\ Finished
    /\ planner_invalid > 0
    /\ planner_source = "fallback"
    /\ outcome.answer = "responder.answer"
    /\ outcome.executed_queries # <<>>
    /\ outcome.executed_queries[Len(outcome.executed_queries)].name = "fallback_list"
    /\ outcome.tool_payload # EmptyPayload


\* C23: a tool_payload that is not empty holds request_id, sql_results and
\* executed_queries; each entry of its sql_results holds the first
\* schema_context_sample_rows_limit rows of the query at most, and the
\* Responder was given every fetched row of the same queries.
C23_ToolPayloadSampled ==
    (outcome.kind = "returned" /\ ~outcome.tool_payload.empty) =>
        LET payload == outcome.tool_payload
        IN  /\ {"request_id", "sql_results", "executed_queries"} \subseteq DOMAIN payload
            /\ payload.executed_queries = outcome.executed_queries
            /\ Len(payload.sql_results) = Len(responder_payload)
            /\ \A k \in 1..Len(payload.sql_results) :
                  /\ payload.sql_results[k].rows <= schema_context_sample_rows_limit
                  /\ payload.sql_results[k].rows <= responder_payload[k].rows
                  /\ payload.sql_results[k].name = responder_payload[k].name
                  /\ responder_payload[k].rows = responder_payload[k].row_count
                  /\ responder_payload[k].rows = outcome.executed_queries[k].rows_returned

\* C23 witness: a payload returned with the first rows of a query of which the
\* Responder was given more
C23_Witness ==
    /\ outcome.kind = "returned"
    /\ ~outcome.tool_payload.empty
    /\ \E k \in 1..Len(outcome.tool_payload.sql_results) :
          /\ outcome.tool_payload.sql_results[k].rows = schema_context_sample_rows_limit
          /\ responder_payload[k].rows = sql_max_rows


\* C36: a step of an orchestration leaves the catalog rows and the embedding
\* store as they are, and changes a scan row only if the scan belongs to a
\* connection of connection_ids, and then neither its connection nor its
\* start.
C36_OnlyScanStatusWritten ==
    [][/\ catalog' = catalog
       /\ e_store' = e_store
       /\ DOMAIN scans' = DOMAIN scans
       /\ \A i \in DOMAIN scans :
              scans'[i] # scans[i] =>
                 /\ scans[i].connection_id \in Range(connection_ids)
                 /\ scans'[i].connection_id = scans[i].connection_id
                 /\ scans'[i].stale = scans[i].stale]_vars

\* C36 witness: an orchestration that wrote a scan as completed in its schema
\* context went on to an answer of the Responder
C36_Witness ==
    /\ outcome.kind = "returned"
    /\ responder_calls > 0
    /\ \E i \in DOMAIN scans :
          /\ scans[i].status = "completed"
          /\ ~scans[i].stale
          /\ scans[i].connection_id \in Range(connection_ids)

\* C37: once the schema context is built, no step of the orchestration
\* changes the snapshot or the allowlists: the Planner requests, the calls of
\* fallback_plan and the Responder request are given the same ones.
C37_SnapshotFrozen ==
    [][pc \notin {"start", "reconcile", "schema"} =>
          /\ schema_context' = schema_context
          /\ allowed_tables_by_connection' = allowed_tables_by_connection]_vars

\* C37 witness: fallback_plan ran on the snapshot, its query was executed
\* and the Responder was then given the snapshot
C37_Witness ==
    /\ planner_source = "fallback"
    /\ db_calls > 0
    /\ responder_calls > 0
    /\ has_any_table(schema_context)

\* the head of the attempt loop is entered with attempt in
\* 0..planner_retry_limit + 1 and a round with round_index below
\* agent_select_rounds
C38_LoopBounds ==
    /\ attempt \in 0..(planner_retry_limit + 1)
    /\ pc \notin {"start", "reconcile", "schema", "attempt", "returned", "raised"}
           => attempt \in AttemptRange /\ round_index \in RoundRange

\* every call of orchestrate_sql_rag ends, by a return or by an exception
C38_Ends == <>Finished

\* an exception of the LLM client left the call
C38_LlmCallRaised == pc = "raised" /\ outcome.answer = "httpx.HTTPError"

\* C38: every call of orchestrate_sql_rag in which the LLM calls and the
\* database calls come back eventually returns: each exit from the attempt
\* loop and the round loop reaches a return statement.
C38_EventuallyReturns == <>(pc = "returned" \/ C38_LlmCallRaised)

\* the call returns in this step
C39_Returns == pc # "returned" /\ pc' = "returned"

\* the answer returned is the answer of a valid Responder response
C39_ResponderAnswer == outcome'.answer = "responder.answer"

\* C39: every return of orchestrate_sql_rag other than a Responder answer
\* carries no executed queries and an empty tool_payload, whatever was
\* executed before; a non-empty tool_payload is returned only with a valid
\* Responder answer after the last round.
C39_EmptyUnlessAnswered ==
    [][C39_Returns =>
          /\ ~C39_ResponderAnswer =>
                /\ outcome'.executed_queries = <<>>
                /\ outcome'.tool_payload = EmptyPayload
          /\ outcome'.tool_payload # EmptyPayload =>
                /\ C39_ResponderAnswer
                /\ pc = "respond"
                /\ round_index = agent_select_rounds - 1]_vars

\* C39 witness: a return without a Responder answer after a query of the
\* attempt was executed and recorded
C39_Witness ==
    /\ pc = "returned"
    /\ outcome.answer # "responder.answer"
    /\ Len(executed_queries) > 0
    /\ outcome.executed_queries = <<>>
    /\ outcome.tool_payload = EmptyPayload

\* an attempt starts in this step
C40_AttemptStarts == pc = "attempt" /\ pc' = "round"

\* list is a prefix of longer
C40_IsPrefix(list, longer) ==
    /\ Len(list) <= Len(longer)
    /\ \A k \in 1..Len(list) : longer[k] = list[k]

\* C40: sql_results and executed_queries hold the queries of the current
\* attempt only: both are emptied when an attempt starts, so the results of
\* an attempt that ended in an error are dropped, and inside an attempt a
\* step only appends at the end, the statement it has just sent; the
\* Responder is given sql_results and the caller executed_queries as they
\* are then.
C40_CurrentAttemptOnly ==
    [][/\ C40_AttemptStarts => sql_results' = <<>> /\ executed_queries' = <<>>
       /\ ~C40_AttemptStarts =>
             /\ C40_IsPrefix(sql_results, sql_results')
             /\ C40_IsPrefix(executed_queries, executed_queries')
             /\ Len(sql_results') <= Len(sql_results) + 1
       /\ Len(sql_results') = Len(executed_queries')
       /\ \A k \in 1..Len(sql_results') :
             /\ executed_queries'[k].sql = sql_results'[k].sql
             /\ executed_queries'[k].connection_id = sql_results'[k].connection_id
       /\ (sql_results' # sql_results /\ ~C40_AttemptStarts /\ Sent') =>
             sql_results'[Len(sql_results')].sql = last_statement'.sql
       /\ responder_calls' > responder_calls => responder_payload' = sql_results
       /\ (C39_Returns /\ C39_ResponderAnswer) =>
             outcome'.executed_queries = executed_queries]_vars

\* C40 witness: the first attempt recorded a query and then failed, the
\* second attempt ran a query in each round and the Responder answered:
\* the caller gets the two queries of the second attempt
C40_Witness ==
    /\ pc = "returned"
    /\ attempt = 1
    /\ db_calls = 2 * agent_select_rounds
    /\ outcome.answer = "responder.answer"
    /\ Len(outcome.executed_queries) = agent_select_rounds
    /\ responder_payload = sql_results

\* the Responder is called in this step
C27_ResponderCalled == responder_calls' = responder_calls + 1

\* C27 (as claimed): the Responder is called at most once and nothing is
\* planned or executed after its call; it is called on a no_sql_needed decision
\* or after the last round of an attempt in which no round had an error (none
\* recorded, and no query refused by the validator or failed by the database);
\* after an intermediate round without error the Planner is called again, with
\* the summary of the results so far.
C27_ResponderLast ==
    [][/\ C27_ResponderCalled =>
             /\ responder_calls = 0
             /\ pc' \in {"returned", "raised"}
             /\ \/ planner_response.decision = "no_sql_needed"
                \/ /\ round_index = agent_select_rounds - 1
                   /\ error_payload = NoError
                   /\ query_failure = NoFailure
       /\ responder_calls > 0 =>
             /\ planner_calls' = planner_calls
             /\ db_calls' = db_calls
             /\ responder_calls' = responder_calls
       /\ (pc = "round_end" /\ error_payload = NoError /\ round_index < agent_select_rounds - 1) =>
             /\ pc' = "round"
             /\ round_index' = round_index + 1
             /\ responder_calls' = responder_calls
             /\ previous_sql_summary' = SqlSummary(sql_results, round_index + 1)]_vars

(***************************************************************************)
(* Claims about the query loop of one round (checked under SpecRound)      *)
(***************************************************************************)
\* the query of the iteration just run failed: an error was recorded for it,
\* or the validator or the target database refused it
C26_Failed ==
    \/ error_payload' # NoError
    \/ query_failure' # NoFailure
    \/ outcome'.kind = "raised"

\* C26 (as claimed): the queries of a round are run one at a time in the order
\* of the list, and an iteration whose query fails is the last of the round:
\* no later query is validated or executed.
C26_FirstFailureStopsRound ==
    [][pc = "query" =>
          /\ query_pos' \in {query_pos, query_pos + 1}
          /\ Len(executed_queries') = Len(executed_queries) + (query_pos' - query_pos)
          /\ C26_Failed => pc' # "query"]_vars

=============================================================================
